---- MODULE Spec2Model ----
(***************************************************************************)
(* A model of the ChatGPT UX Suite content script                          *)
(* (chatgpt_ux_suite_firefox/unifiedContentScript.js): the Prompt          *)
(* Navigator's scan / anchor / jump engine and the Context Collector's     *)
(* selection and export engine.                                            *)
(*                                                                         *)
(* The live document is an external data source.  A conversation turn is a *)
(* record: its identity (id), the markup signals determineMessageRole      *)
(* reads, and its layout box.  `top` is the turn's offset inside the       *)
(* scrolled content, the value the code computes as                        *)
(* context.scrollTop + (rect.top - context.containerTop), which does not   *)
(* change when the page is scrolled.  Offsets are pixels.  Viewport        *)
(* heights are multiples of 20, for which 0.15 * h, 0.8 * h and 0.2 * h    *)
(* are whole numbers (and exact in IEEE doubles).                          *)
(***************************************************************************)
EXTENDS Integers, Sequences, FiniteSets, TLC

\* ---------------------------------------------------------------- bounds
MaxTurns == 3        \* turns on a page
MaxIndex == 3        \* largest index passed to determineMessageRole
MaxPieces == 4       \* pieces of a text whose tokens are estimated
MaxBytes == 60       \* largest byte count whose tokens are estimated
MaxSizePieces == 3   \* pieces of a file size label
MaxTime == 7         \* tenths of a second the clock runs after the page has loaded
MaxRetries == 2      \* attach retries of the session tracker that are pending at once
MaxRequests == 2     \* handleJump calls that wait for the storage at once
MaxFree == 2         \* free jumps that a user has left at the start, at most
MaxWords == 8        \* largest word count whose tokens are estimated
MaxCharacters == 30  \* largest character count whose tokens are estimated
MaxHours == 30       \* hours since the epoch at which the license is checked
MaxPrompts == 2      \* prompts of a conversation

\* ------------------------------------------------------------- constants
tolerance == 10      \* pixels, findTargetAnchor

UPDATE_DEBOUNCE_MS == 4   \* TokenCounter: 400 ms, in tenths of a second
REFRESH_DEBOUNCE_MS == 5  \* PromptNavigator: 500 ms
STYLE_DEBOUNCE_MS == 2    \* ResponseStyling: 200 ms
RAPID_JUMP_MS == 3        \* scrollToAnchor: 300 ms
CHECK_THROTTLE_MS == 5    \* checkGenerationState: 500 ms

FREE_NAVIGATIONS == 30    \* LicenseManager: jumps without a license
REVALIDATE_AFTER == 24    \* isLicenseValid: 86400000 ms, in hours

LoadTime == 10       \* Date.now() when the content script starts (any value of 3 or more)

NoAttr == "<none>"   \* getAttribute(...) returned null
NoElement == 0       \* the null element of the chat-bottom anchor

VARIABLES
  turns,         \* collectConversationTurns(main): the page's turn containers, in document order
  viewHeight,    \* context.viewHeight
  scrollHeight,  \* scrollHeight of the scroll container (or of the document)
  scrollTop,     \* context.scrollTop: the current scroll offset
  prompts,       \* PromptNavigator.prompts: element ids of the navigation targets
  lastAnchor,    \* PromptNavigator.lastAnchor
  lastOp,        \* the last handler that ran; of a jump: the direction, the offset and
                 \* the lastAnchor it started from, the anchor it chose, what it returned;
                 \* of a copy: the format and the text handed to the clipboard
  enabled,           \* ContextCollector.enabled
  selectionMode,     \* ContextCollector.selectionMode
  allTurns,          \* ContextCollector.allTurns: the turns scanTurns() kept
  selectedTurns,     \* ContextCollector.selectedTurns: the Map's entries, in insertion order
  lastClickedIndex,  \* ContextCollector.lastClickedIndex
  currentFormat,     \* ContextCollector.currentFormat
  currentDelimiter,  \* ContextCollector.currentDelimiter
  call,              \* a call of one of the helper functions: its arguments, then its result
  clock,             \* Date.now(), in tenths of a second
  lastJumpTime,      \* PromptNavigator.lastJumpTime
  navigator,         \* PromptNavigator: enabled, whether init() ran, the widget element
  timers,            \* the debounce timers of the three refresh loops
  storage,           \* chrome.storage.sync: the usage count and the license
  requests,          \* the handleJump calls that are waiting for the storage
  freeJumps,         \* the successful jumps made on the free tier so far
  session,           \* SessionTracker's times and counts, the address and localStorage
  counter,           \* TokenCounter: enabled, counterDismissed, its element, lastSignature
  styling,           \* ResponseStyling: enabled
  popup,             \* the popup's last toggle, and which of its two notices are under way
  settings,          \* currentSettings
  tracker,           \* SessionTracker: enabled, its row, its attach retry
  sound              \* SoundNotification, and the page's response generation

navVars == <<turns, viewHeight, scrollHeight, scrollTop, prompts, lastAnchor>>

ccVars == <<enabled, selectionMode, allTurns, selectedTurns, lastClickedIndex,
            currentFormat, currentDelimiter>>

bgVars == <<clock, lastJumpTime, navigator, timers, storage, requests, freeJumps, session, counter,
           styling, popup, settings, tracker, sound>>

vars == <<navVars, lastOp, ccVars, call, bgVars>>

\* ------------------------------------------------------ shared utilities
Max(a, b) == IF a >= b THEN a ELSE b

Min(a, b) == IF a <= b THEN a ELSE b

Range(s) == {s[i] : i \in 1..Len(s)}

\* isElementVisible(el): a zero box or a hiding style makes it invisible.
\* (rect.width is not modelled apart from rect.height: a turn's box is empty
\* or it is not.)
isElementVisible(el) == el.height # 0 /\ ~el.hidden

\* determineMessageRole that reads the aria-label before the test id.
determineMessageRoleAriaFirst(el, index) ==
  IF el.roleAttr # NoAttr /\ el.roleAttr # "" THEN el.roleAttr
  ELSE IF el.nestedRole # NoAttr THEN el.nestedRole
  ELSE IF "you" \in el.ariaLabel THEN "user"
  ELSE IF el.ariaLabel \cap {"chatgpt", "assistant"} # {} THEN "assistant"
  ELSE IF "user" \in el.testId THEN "user"
  ELSE IF el.testId \cap {"assistant", "model", "gpt"} # {} THEN "assistant"
  ELSE IF index % 2 = 0 THEN "user" ELSE "assistant"

\* determineMessageRole(el, index); index counts from 0.  testId and
\* ariaLabel hold the recognised substrings the lower-cased attribute
\* contains.  A role attribute that is absent (NoAttr) or empty is falsy;
\* a nested element that carries the attribute decides whatever its value.
determineMessageRole(el, index) ==
  IF el.roleAttr # NoAttr /\ el.roleAttr # "" THEN el.roleAttr
  ELSE IF el.nestedRole # NoAttr THEN el.nestedRole
  ELSE IF "user" \in el.testId THEN "user"
  ELSE IF el.testId \cap {"assistant", "model", "gpt"} # {} THEN "assistant"
  ELSE IF "you" \in el.ariaLabel THEN "user"
  ELSE IF el.ariaLabel \cap {"chatgpt", "assistant"} # {} THEN "assistant"
  ELSE IF index % 2 = 0 THEN "user" ELSE "assistant"

\* The members of a set of positions, in ascending order.
RECURSIVE Ascending(_)
Ascending(S) ==
  IF S = {} THEN <<>>
  ELSE LET m == CHOOSE x \in S : \A y \in S : x <= y
       IN <<m>> \o Ascending(S \ {m})

\* --------------------------------------------------- Prompt Navigator
\* scan() that takes every visible turn, whatever its role.
scanAnyRole(ts) ==
  LET visibleTurns == Ascending({i \in 1..Len(ts) : isElementVisible(ts[i])})
  IN [k \in 1..Len(visibleTurns) |-> ts[visibleTurns[k]].id]

\* scan() that does not look at visibility when it picks the user turns.
scanUnfiltered(ts) ==
  LET userPrompts == Ascending({i \in 1..Len(ts) :
                        determineMessageRole(ts[i], i - 1) = "user"})
      visibleTurns == Ascending({i \in 1..Len(ts) : isElementVisible(ts[i])})
      ids(s) == [k \in 1..Len(s) |-> ts[s[k]].id]
  IN IF Len(userPrompts) = 0 /\ Len(ts) > 0 THEN ids(visibleTurns) ELSE ids(userPrompts)

\* scan(): the visible turns classified user (the role is decided with the
\* turn's index among all turns, counted from 0); all visible turns when
\* there is none.  The result is the list of element ids, in document order.
scan(ts) ==
  LET userPrompts == Ascending({i \in 1..Len(ts) :
                        isElementVisible(ts[i])
                        /\ determineMessageRole(ts[i], i - 1) = "user"})
      visibleTurns == Ascending({i \in 1..Len(ts) : isElementVisible(ts[i])})
      ids(s) == [k \in 1..Len(s) |-> ts[s[k]].id]
  IN IF Len(userPrompts) = 0 /\ Len(ts) > 0 THEN ids(visibleTurns) ELSE ids(userPrompts)

\* The element with identity id, for its getBoundingClientRect().
Element(id) == CHOOSE t \in Range(turns) : t.id = id

\* getScrollContext(): the scroll container's geometry.
getScrollContext == [scrollTop |-> scrollTop, viewHeight |-> viewHeight,
                     scrollHeight |-> scrollHeight]

\* An anchor is [element, kind, y, promptIndex]; promptIndex counts from 0.
\* Array.prototype.sort is stable: an anchor goes after those already
\* placed whose y is not greater.
InsertByY(a, s) ==
  LET k == Cardinality({i \in 1..Len(s) : s[i].y <= a.y})
  IN SubSeq(s, 1, k) \o <<a>> \o SubSeq(s, k + 1, Len(s))

RECURSIVE SortByY(_)
SortByY(s) ==
  IF s = <<>> THEN <<>>
  ELSE InsertByY(s[Len(s)], SortByY(SubSeq(s, 1, Len(s) - 1)))

\* PromptAnchors numbering the prompts from 1.
RECURSIVE PromptAnchorsFromOne(_, _, _)
PromptAnchorsFromOne(ps, context, i) ==
  IF i > Len(ps) THEN <<>>
  ELSE <<[element |-> ps[i], kind |-> "top", y |-> Element(ps[i]).top, promptIndex |-> i]>>
       \o (IF 5 * Element(ps[i]).height > 4 * context.viewHeight
           THEN <<[element |-> ps[i], kind |-> "bottom",
                   y |-> Element(ps[i]).top + Element(ps[i]).height, promptIndex |-> i]>>
           ELSE <<>>)
       \o PromptAnchorsFromOne(ps, context, i + 1)

\* The anchors of prompts[i..], as pushed by the forEach of buildAnchors:
\* a top anchor, and a bottom anchor when height > viewHeight * 0.8.
RECURSIVE PromptAnchors(_, _, _)
PromptAnchors(ps, context, i) ==
  IF i > Len(ps) THEN <<>>
  ELSE LET el == Element(ps[i])
           topY == el.top
           height == el.height
           topAnchor == [element |-> ps[i], kind |-> "top", y |-> topY,
                         promptIndex |-> i - 1]
           bottomAnchor == [element |-> ps[i], kind |-> "bottom", y |-> topY + height,
                            promptIndex |-> i - 1]
       IN <<topAnchor>>
          \o (IF 5 * height > 4 * context.viewHeight THEN <<bottomAnchor>> ELSE <<>>)
          \o PromptAnchors(ps, context, i + 1)

\* buildAnchors(context): the prompts' anchors, then the chat-bottom anchor
\* at scrollHeight, the whole sorted by y.
buildAnchors(ps, context) ==
  SortByY(PromptAnchors(ps, context, 1)
          \o <<[element |-> NoElement, kind |-> "chat-bottom",
                y |-> context.scrollHeight, promptIndex |-> Len(ps)]>>)

\* getTargetScroll(anchor) of findTargetAnchor: the scroll position an anchor
\* would result in, before clamping.
getTargetScroll(anchor, context) ==
  IF anchor.kind = "chat-bottom" THEN context.scrollHeight - context.viewHeight
  ELSE IF anchor.kind = "top" THEN anchor.y - (3 * context.viewHeight) \div 20
  ELSE anchor.y - context.viewHeight + context.viewHeight \div 5

NoAnchor == [element |-> -1, kind |-> "none"]                       \* lastAnchor = null

NoTarget == [element |-> -1, kind |-> "none", y |-> 0, promptIndex |-> -1]  \* findTargetAnchor returned null

\* anchors.findIndex(element and kind equal lastAnchor's), as a position
\* from 1; 0 for "not found" (the code's -1), also when lastAnchor is null.
findIndex(anchors, last) ==
  LET hits == {i \in 1..Len(anchors) :
                 anchors[i].element = last.element /\ anchors[i].kind = last.kind}
  IN IF last = NoAnchor \/ hits = {} THEN 0
     ELSE CHOOSE i \in hits : \A j \in hits : i <= j

\* findTargetAnchor that gives up when the recorded anchor is not in the list.
findTargetAnchorStrict(anchors, context, direction, last) ==
  LET currentScroll == context.scrollTop
      currentIndex == findIndex(anchors, last)
      up == {i \in 1..Len(anchors) :
               getTargetScroll(anchors[i], context) < currentScroll - tolerance}
      down == {i \in 1..Len(anchors) :
               getTargetScroll(anchors[i], context) > currentScroll + tolerance}
  IN IF last # NoAnchor /\ currentIndex = 0 THEN NoTarget
     ELSE IF currentIndex = 0
     THEN IF direction = "previous"
          THEN IF up = {} THEN NoTarget
               ELSE anchors[CHOOSE i \in up : \A j \in up : j <= i]
          ELSE IF down = {} THEN NoTarget
               ELSE anchors[CHOOSE i \in down : \A j \in down : i <= j]
     ELSE IF direction = "next"
          THEN IF currentIndex >= Len(anchors) THEN NoTarget ELSE anchors[currentIndex + 1]
          ELSE IF currentIndex <= 1 THEN NoTarget ELSE anchors[currentIndex - 1]

\* findTargetAnchor(anchors, context, direction), reading lastAnchor.
findTargetAnchor(anchors, context, direction, last) ==
  LET currentScroll == context.scrollTop
      currentIndex == findIndex(anchors, last)
      up == {i \in 1..Len(anchors) :
               getTargetScroll(anchors[i], context) < currentScroll - tolerance}
      down == {i \in 1..Len(anchors) :
               getTargetScroll(anchors[i], context) > currentScroll + tolerance}
  IN IF currentIndex = 0
     THEN IF direction = "previous"
          THEN IF up = {} THEN NoTarget
               ELSE anchors[CHOOSE i \in up : \A j \in up : j <= i]
          ELSE IF down = {} THEN NoTarget
               ELSE anchors[CHOOSE i \in down : \A j \in down : i <= j]
     ELSE IF direction = "next"
          THEN IF currentIndex >= Len(anchors) THEN NoTarget ELSE anchors[currentIndex + 1]
          ELSE IF currentIndex <= 1 THEN NoTarget ELSE anchors[currentIndex - 1]

\* scrollToAnchor without the clamp.
scrollToAnchorUnclamped(anchor, context) ==
  IF anchor.kind = "chat-bottom" THEN context.scrollHeight - context.viewHeight
  ELSE IF anchor.kind = "top" THEN anchor.y - (3 * context.viewHeight) \div 20
  ELSE anchor.y - context.viewHeight + context.viewHeight \div 5

\* scrollToAnchor(anchor, context): the offset handed to scrollTo, clamped
\* into 0..maxScroll by Math.max(0, Math.min(target, maxScroll)).
scrollToAnchor(anchor, context) ==
  LET targetScrollTop ==
        IF anchor.kind = "chat-bottom" THEN context.scrollHeight - context.viewHeight
        ELSE IF anchor.kind = "top" THEN anchor.y - (3 * context.viewHeight) \div 20
        ELSE anchor.y - context.viewHeight + context.viewHeight \div 5
      maxScroll == context.scrollHeight - context.viewHeight
  IN Max(0, Min(targetScrollTop, maxScroll))

\* jump without its first line, the test for an empty target list.
jumpUnguarded(ps, context, direction, last) ==
  LET anchors == buildAnchors(ps, context)
      target == findTargetAnchor(anchors, context, direction, last)
  IN IF target = NoTarget
     THEN [result |-> [success |-> FALSE, reason |-> "no_target",
                       promptIndex |-> -1, total |-> -1],
           target |-> NoTarget, applied |-> -1,
           currentIndex |-> findIndex(anchors, last)]
     ELSE [result |-> [success |-> TRUE, reason |-> "",
                       promptIndex |-> target.promptIndex, total |-> Len(ps)],
           target |-> target,
           applied |-> scrollToAnchor(target, context),
           currentIndex |-> findIndex(anchors, last)]

\* jump(direction) on the target list ps: the result it returns, the anchor
\* it chose, the offset it scrolled to (applied = -1: no scrollTo call) and
\* the position at which lastAnchor was found in the rebuilt anchors.
jump(ps, context, direction, last) ==
  LET anchors == buildAnchors(ps, context)
      target == findTargetAnchor(anchors, context, direction, last)
      failure(reason) == [result |-> [success |-> FALSE, reason |-> reason,
                                      promptIndex |-> -1, total |-> -1],
                          target |-> NoTarget, applied |-> -1,
                          currentIndex |-> findIndex(anchors, last)]
  IN IF Len(ps) = 0 THEN failure("no_prompts")
     ELSE IF Len(anchors) = 0 THEN failure("no_anchors")
     ELSE IF target = NoTarget THEN failure("no_target")
     ELSE [result |-> [success |-> TRUE, reason |-> "",
                       promptIndex |-> target.promptIndex, total |-> Len(ps)],
           target |-> target,
           applied |-> scrollToAnchor(target, context),
           currentIndex |-> findIndex(anchors, last)]

\* ------------------------------------------------ tokenEstimator.js
\* A text is a sequence of characters.
IsSpace(c) == c \in {" ", "\n", "\t"}

\* Clean that leaves the text as it is.
CleanNothing(text) == text

\* text.replace(/\s+/g, ' ').trim(): every run of white space becomes one
\* blank, and the blanks at both ends go.
Clean(text) ==
  LET kept == Ascending({i \in 1..Len(text) :
                  \/ ~IsSpace(text[i])
                  \/ /\ i > 1 /\ ~IsSpace(text[i - 1])
                     /\ \E j \in (i + 1)..Len(text) : ~IsSpace(text[j])})
  IN [k \in 1..Len(kept) |-> IF IsSpace(text[kept[k]]) THEN " " ELSE text[kept[k]]]

\* Characters that Intl.Segmenter does not count as part of a word.
Punctuation == {"!", "?", "\"", "\\", "<", ">"}

IsWordLike(c) == ~IsSpace(c) /\ c \notin Punctuation

\* countWords(text) without Intl.Segmenter: the runs of characters other
\* than white space.
countWords(text) ==
  Cardinality({i \in 1..Len(text) : ~IsSpace(text[i]) /\ (i = 1 \/ IsSpace(text[i - 1]))})

\* countWords(text) with Intl.Segmenter: the word-like segments, which are
\* the runs of letters and digits.
countWordLike(text) ==
  Cardinality({i \in 1..Len(text) : IsWordLike(text[i]) /\ (i = 1 \/ ~IsWordLike(text[i - 1]))})

CHARS_PER_TOKEN == 4

BYTES_PER_TOKEN == 4

NoEstimate == [tokens |-> 0, words |-> 0, characters |-> 0]

\* estimateFromCounts with the character estimate rounded down.
estimateFromCountsFloor(words, characters) ==
  LET byWord == (133 * (IF words = 0 THEN 1 ELSE words) + 99) \div 100
      byCharacter == characters \div CHARS_PER_TOKEN
      blended == (4 * byWord + 6 * byCharacter + 5) \div 10
  IN [tokens |-> Max(1, Max(byWord, Max(byCharacter, blended))),
      words |-> words, characters |-> characters]

\* estimateFromCounts with the word estimate weighted 1.4 in the blend.
estimateFromCountsHeavy(words, characters) ==
  LET byWord == (133 * (IF words = 0 THEN 1 ELSE words) + 99) \div 100
      byCharacter == (characters + CHARS_PER_TOKEN - 1) \div CHARS_PER_TOKEN
      blended == (14 * byWord + 6 * byCharacter + 5) \div 10
  IN [tokens |-> Max(1, Max(byWord, Max(byCharacter, blended))),
      words |-> words, characters |-> characters]

\* The arithmetic of estimateTokensFromText: the largest of
\* ceil((words || 1) * 1.33), ceil(characters / 4) and their 40:60 blend,
\* rounded.
estimateFromCounts(words, characters) ==
  LET byWord == (133 * (IF words = 0 THEN 1 ELSE words) + 99) \div 100
      byCharacter == (characters + CHARS_PER_TOKEN - 1) \div CHARS_PER_TOKEN
      blended == (4 * byWord + 6 * byCharacter + 5) \div 10
  IN [tokens |-> Max(1, Max(byWord, Max(byCharacter, blended))),
      words |-> words, characters |-> characters]

\* estimateTokensFromText(text) in a browser with (segmenter) or without
\* Intl.Segmenter: tokens, words and characters.
estimateTokensFromTextIn(text, segmenter) ==
  LET cleaned == Clean(text)
      words == IF segmenter THEN countWordLike(cleaned) ELSE countWords(cleaned)
      characters == Len(SelectSeq(cleaned, LAMBDA c : ~IsSpace(c)))
  IN IF Len(text) = 0 \/ Len(cleaned) = 0 THEN NoEstimate
     ELSE estimateFromCounts(words, characters)

\* estimateTokensFromText(text).tokens, words counted without the segmenter.
estimateTokensFromText(text) == estimateTokensFromTextIn(text, FALSE).tokens

\* estimateTokensFromBytes with the quotient rounded down.
estimateTokensFromBytesFloor(bytes) ==
  IF bytes = 0 THEN 0 ELSE Max(1, bytes \div BYTES_PER_TOKEN)

\* estimateTokensFromBytes(bytes): a token for every four bytes, rounded up.
estimateTokensFromBytes(bytes) ==
  IF bytes = 0 THEN 0
  ELSE Max(1, (bytes + BYTES_PER_TOKEN - 1) \div BYTES_PER_TOKEN)

\* A number the estimator computes or returns: NaN, or the decimal
\* num / 10^decimals times 1024^power (kept as a product, for 1024^4 is wider
\* than the integers of the model).
NaN == [nan |-> TRUE, num |-> 0, decimals |-> 0, power |-> 0]

Decimal(num, decimals) == [nan |-> FALSE, num |-> num, decimals |-> decimals, power |-> 0]

\* value * Math.pow(1024, power)
TimesBase(value, power) ==
  IF value.nan \/ value.num = 0 THEN value ELSE [value EXCEPT !.power = power]

Digits == <<"0", "1", "2", "3", "4", "5", "6", "7", "8", "9">>

IsDigit(c) == \E d \in 1..Len(Digits) : Digits[d] = c

DigitValue(c) == (CHOOSE d \in 1..Len(Digits) : Digits[d] = c) - 1

\* The number written by a sequence of digits.
RECURSIVE DigitsValue(_)
DigitsValue(ds) ==
  IF Len(ds) = 0 THEN 0
  ELSE 10 * DigitsValue(SubSeq(ds, 1, Len(ds) - 1)) + DigitValue(ds[Len(ds)])

\* The length of the run of digits that text begins with.
RECURSIVE DigitRun(_)
DigitRun(text) ==
  IF Len(text) = 0 \/ ~IsDigit(text[1]) THEN 0 ELSE 1 + DigitRun(Tail(text))

\* The decimal without the zeros that end its fraction.
RECURSIVE Reduced(_)
Reduced(value) ==
  IF value.decimals > 0 /\ value.num % 10 = 0
  THEN Reduced([value EXCEPT !.num = value.num \div 10, !.decimals = value.decimals - 1])
  ELSE value

\* parseFloat(text) of a text of digits and dots: the longest prefix that is
\* a decimal literal (digits, then a dot and digits, with a digit
\* somewhere), or NaN when the text begins with no such literal.
parseFloat(text) ==
  LET whole == DigitRun(text)
      rest == SubSeq(text, whole + 1, Len(text))
      fraction == IF Len(rest) > 0 /\ rest[1] = "." THEN DigitRun(Tail(rest)) ELSE 0
  IN IF whole + fraction = 0 THEN NaN
     ELSE Reduced(Decimal(DigitsValue(SubSeq(text, 1, whole)
                                        \o SubSeq(rest, 2, fraction + 1)),
                          fraction))

\* The units of the pattern, in the order of its alternation, and the power
\* of 1024 the switch gives each.
Units ==
  << <<"k", "i", "b">>, <<"k", "b">>, <<"m", "i", "b">>, <<"m", "b">>,
     <<"g", "i", "b">>, <<"g", "b">>, <<"t", "i", "b">>, <<"t", "b">>, <<"b">> >>

UnitPower == <<1, 1, 2, 2, 3, 3, 4, 4, 0>>

\* toLowerCase() on the letters of the units.
ToLowerCase(c) ==
  CASE c = "K" -> "k" [] c = "M" -> "m" [] c = "G" -> "g" [] c = "T" -> "t"
    [] c = "I" -> "i" [] c = "B" -> "b" [] OTHER -> c

\* text has the unit at position at, in either case.
UnitAt(text, at, unit) ==
  /\ at + Len(unit) - 1 <= Len(text)
  /\ \A k \in 1..Len(unit) : ToLowerCase(text[at + k - 1]) = unit[k]

\* The matches of /([\d.]+)\s*(kib|kb|mib|mb|gib|gb|tib|tb|b)/i in text:
\* the number runs from first to last, the unit follows the white space
\* after it.
Matches(text) ==
  {mt \in [first : 1..Len(text), last : 1..Len(text), gap : 0..Len(text),
           unit : 1..Len(Units)] :
     /\ mt.first <= mt.last
     /\ \A i \in mt.first..mt.last : IsDigit(text[i]) \/ text[i] = "."
     /\ mt.last + mt.gap <= Len(text)
     /\ \A i \in (mt.last + 1)..(mt.last + mt.gap) : IsSpace(text[i])
     /\ UnitAt(text, mt.last + mt.gap + 1, Units[mt.unit])}

\* The match the pattern returns: the leftmost, with the longest number and
\* the longest white space, and the first unit of the alternation.
FirstMatch(text) ==
  CHOOSE mt \in Matches(text) : \A other \in Matches(text) :
    \/ mt.first < other.first
    \/ mt.first = other.first /\ mt.last > other.last
    \/ mt.first = other.first /\ mt.last = other.last /\ mt.gap > other.gap
    \/ /\ mt.first = other.first /\ mt.last = other.last /\ mt.gap = other.gap
       /\ mt.unit <= other.unit

\* parseFileSizeToBytes(sizeText)
parseFileSizeToBytes(sizeText) ==
  LET text == SelectSeq(sizeText, LAMBDA c : c # ",")
  IN IF Len(sizeText) = 0 \/ Matches(text) = {} THEN Decimal(0, 0)
     ELSE LET match == FirstMatch(text)
              value == parseFloat(SubSeq(text, match.first, match.last))
          IN TimesBase(value, UnitPower[match.unit])

\* --------------------------------------------------- Context Collector
\* isThinkingIndicator(el): the turn is nothing but a reasoning indicator.
isThinkingIndicator(el) == el.thinking

\* scanTurns(): the visible turns that are no thinking indicators.
scanTurns(ts) == SelectSeq(ts, LAMBDA t : isElementVisible(t) /\ ~isThinkingIndicator(t))

\* extractTurnText(turn): the turn's text without controls, reasoning
\* blocks and "You said:" prefixes; the record's text is that cleaned text.
extractTurnText(turn) == turn.text

\* selectedTurns.has(turn), on the entries sel.
Has(sel, turn) == \E k \in 1..Len(sel) : sel[k].turn = turn.id

\* selectTurn(index) on the entries sel: a turn that is not selected gets an
\* entry, after the others; index counts from 0 in allTurns.
selectTurn(sel, index) ==
  IF index < 0 \/ index >= Len(allTurns) THEN sel
  ELSE LET turn == allTurns[index + 1]
           text == extractTurnText(turn)
       IN IF Has(sel, turn) THEN sel
          ELSE Append(sel, [turn |-> turn.id, index |-> index,
                            role |-> determineMessageRole(turn, index), text |-> text,
                            tokens |-> estimateTokensFromText(text)])

\* toggleTurn(index): a selected turn loses its entry, another gets one.
toggleTurn(sel, index) ==
  IF index < 0 \/ index >= Len(allTurns) THEN sel
  ELSE IF Has(sel, allTurns[index + 1])
       THEN SelectSeq(sel, LAMBDA e : e.turn # allTurns[index + 1].id)
       ELSE selectTurn(sel, index)

\* The loop of handleTurnClick with toggleTurn(i) in the place of
\* selectTurn(i).
RECURSIVE toggleRange(_, _, _)
toggleRange(sel, start, end) ==
  IF start > end THEN sel ELSE toggleRange(toggleTurn(sel, start), start + 1, end)

\* for (i = start; i <= end; i++) selectTurn(i)
RECURSIVE selectRange(_, _, _)
selectRange(sel, start, end) ==
  IF start > end THEN sel ELSE selectRange(selectTurn(sel, start), start + 1, end)

\* allTurns.forEach: selectTurn(i) for the turns i.. whose role is role.
RECURSIVE selectRoleFrom(_, _, _)
selectRoleFrom(sel, role, i) ==
  IF i >= Len(allTurns) THEN sel
  ELSE selectRoleFrom(IF determineMessageRole(allTurns[i + 1], i) = role
                      THEN selectTurn(sel, i) ELSE sel,
                      role, i + 1)

\* The string of a sequence of characters.
RECURSIVE Flatten(_)
Flatten(chars) ==
  IF chars = <<>> THEN ""
  ELSE IF Len(chars) = 1 THEN chars[1]
  ELSE Flatten(SubSeq(chars, 1, Len(chars) \div 2))
       \o Flatten(SubSeq(chars, Len(chars) \div 2 + 1, Len(chars)))

\* array.join(separator) of strings.
RECURSIVE Join(_, _)
Join(parts, separator) ==
  IF parts = <<>> THEN ""
  ELSE IF Len(parts) = 1 THEN parts[1]
  ELSE parts[1] \o separator \o Join(Tail(parts), separator)

DELIMITER_PRESETS ==
  [newline |-> "\n\n", dash |-> "\n\n---\n\n", equals |-> "\n\n===\n\n", custom |-> ""]

\* .replace(/\\n/g, '\n').replace(/\\t/g, '\t') of a typed delimiter: a
\* backslash followed by n or t becomes the line break or the tab.
RECURSIVE Unescape(_)
Unescape(chars) ==
  IF chars = <<>> THEN <<>>
  ELSE IF Len(chars) >= 2 /\ chars[1] = "\\" /\ chars[2] \in {"n", "t"}
       THEN <<IF chars[2] = "n" THEN "\n" ELSE "\t">> \o Unescape(SubSeq(chars, 3, Len(chars)))
       ELSE <<chars[1]>> \o Unescape(Tail(chars))

\* getDelimiterValue(): the preset's string, or the typed one (two line
\* breaks when nothing is typed).
getDelimiterValue ==
  IF currentDelimiter.preset = "custom"
  THEN IF currentDelimiter.custom = <<>> THEN "\n\n"
       ELSE Flatten(Unescape(currentDelimiter.custom))
  ELSE DELIMITER_PRESETS[currentDelimiter.preset]

\* The entries sorted by index; Array.prototype.sort is stable.
InsertByIndex(e, s) ==
  LET k == Cardinality({i \in 1..Len(s) : s[i].index <= e.index})
  IN SubSeq(s, 1, k) \o <<e>> \o SubSeq(s, k + 1, Len(s))

RECURSIVE SortByIndex(_)
SortByIndex(s) ==
  IF s = <<>> THEN <<>>
  ELSE InsertByIndex(s[Len(s)], SortByIndex(SubSeq(s, 1, Len(s) - 1)))

\* A character inside a JSON string, as JSON.stringify writes it.
JsonChar(c) ==
  IF c = "\"" THEN "\\\""
  ELSE IF c = "\\" THEN "\\\\"
  ELSE IF c = "\n" THEN "\\n"
  ELSE IF c = "\t" THEN "\\t"
  ELSE c

JsonString(chars) == "\"" \o Flatten([k \in 1..Len(chars) |-> JsonChar(chars[k])]) \o "\""

\* One entry in each format.  A role is one word: its JSON string is the
\* word in quotes.
PlainEntry(data) ==
  (IF data.role = "user" THEN "User" ELSE "Assistant") \o ":\n" \o Flatten(data.text)

JsonEntry(data) ==
  "  {\n    \"role\": \"" \o data.role \o "\",\n    \"content\": "
  \o JsonString(data.text) \o "\n  }"

XmlEntry(data) ==
  LET tag == IF data.role = "user" THEN "user" ELSE "assistant"
  IN "<" \o tag \o ">\n" \o Flatten(data.text) \o "\n</" \o tag \o ">"

\* What formatOutputAs makes of the entries in the order given.
Serialize(entries, format, delimiter) ==
  IF format = "plain"
  THEN Join([k \in 1..Len(entries) |-> PlainEntry(entries[k])], delimiter)
  ELSE IF format = "json"
  THEN IF entries = <<>> THEN "[]"
       ELSE "[\n" \o Join([k \in 1..Len(entries) |-> JsonEntry(entries[k])], ",\n") \o "\n]"
  ELSE IF format = "xml"
  THEN Join([k \in 1..Len(entries) |-> XmlEntry(entries[k])], "\n")
  ELSE ""

\* formatOutputAs that serializes the entries in the Map's own order.
formatOutputAsInserted(format) == Serialize(selectedTurns, format, getDelimiterValue)

\* formatOutputAs(format): the selected entries, sorted by index, in the
\* format; plain joins them with the delimiter, json is
\* JSON.stringify(messages, null, 2), xml joins them with a line break.
formatOutputAs(format) ==
  LET sorted == SortByIndex(selectedTurns)
      delimiter == getDelimiterValue
  IN Serialize(sorted, format, delimiter)

\* ------------------------------------------------------- page inputs
\* Markup of a turn: the role on a nested element (as the site renders it),
\* or no signal at all (the role then falls back to the index parity).
\* A loaded page holds user and assistant turns.
\* thinking: the turn's text is a "Thought for ..." reasoning indicator.
SigUser == [roleAttr |-> NoAttr, nestedRole |-> "user", testId |-> {}, ariaLabel |-> {},
            thinking |-> FALSE]

SigAssistant == [roleAttr |-> NoAttr, nestedRole |-> "assistant", testId |-> {},
                 ariaLabel |-> {}, thinking |-> FALSE]

SigNone == [roleAttr |-> NoAttr, nestedRole |-> NoAttr, testId |-> {}, ariaLabel |-> {},
            thinking |-> FALSE]

SigThinking == [roleAttr |-> NoAttr, nestedRole |-> "assistant", testId |-> {},
                ariaLabel |-> {}, thinking |-> TRUE]

Signals == {SigUser, SigAssistant}

\* Layout boxes: at the very top of the content; ending where the next one
\* starts; low in the content; and an empty (invisible) box.
Boxes == {[top |-> 0, height |-> 50, hidden |-> FALSE],
          [top |-> 50, height |-> 20, hidden |-> FALSE],
          [top |-> 120, height |-> 50, hidden |-> FALSE],
          [top |-> 50, height |-> 0, hidden |-> FALSE]}

\* Viewports: a short one, a tall one, and one taller than the content.
Views == {[viewHeight |-> 40, scrollHeight |-> 200],
          [viewHeight |-> 120, scrollHeight |-> 200],
          [viewHeight |-> 120, scrollHeight |-> 100]}

\* Offsets the user scrolls to.
ScrollStops == {0, 80, 160}

\* What the turns say, as sequences of characters: a quotation, a line
\* break, a backslash and markup are among them.  Every turn of a page has
\* a text of its own.
Texts == << <<"h", "i">>,
            <<"a", " ", "\"", "b", "\"">>,
            <<"x", "\n", "y", "\\">>,
            <<"d", "\\">>,
            <<"<", "e", ">">> >>

MkTurn(id, sig, box) ==
  [id |-> id, roleAttr |-> sig.roleAttr, nestedRole |-> sig.nestedRole,
   testId |-> sig.testId, ariaLabel |-> sig.ariaLabel, thinking |-> sig.thinking,
   text |-> Texts[((id - 1) % Len(Texts)) + 1],
   top |-> box.top, height |-> box.height, hidden |-> box.hidden]

\* The pages of n turns; a turn's identity is its position.
Pages(n) == {[i \in 1..n |-> MkTurn(i, f[i][1], f[i][2])] :
               f \in [1..n -> Signals \X Boxes]}

\* ------------------------------------------------ the refresh loops
\* TokenCounter (pendingUpdate), PromptNavigator (refreshTimer) and
\* ResponseStyling (timeout) each keep one timer handle.  handle is the
\* variable (0 for null), pending the timers of the loop that the browser
\* holds, each with its id and the time it is due; scheduledAt is the time
\* of the last scheduling, ran counts the rescans since, replaced tells
\* whether that scheduling took the place of a timer still pending, and
\* flip changes with every rescan of the loop.
Loops == {"counter", "navigator", "styling"}

Window(loop) ==
  CASE loop = "counter" -> UPDATE_DEBOUNCE_MS
    [] loop = "navigator" -> REFRESH_DEBOUNCE_MS
    [] loop = "styling" -> STYLE_DEBOUNCE_MS

NoTimers ==
  [loop \in Loops |-> [handle |-> 0, pending |-> {}, scheduledAt |-> 0, ran |-> 0,
                       replaced |-> FALSE, flip |-> FALSE]]

\* setTimeout with no delay.
DueTimeAtOnce(loop, now) == now

\* setTimeout(rescan, window): the time the timer is due.
DueTime(loop, now) == now + Window(loop)

\* setTimeout returns an id that no live timer and no handle holds.
FreshId(ts) ==
  LET used == UNION {{ts[l].handle} \cup {t.id : t \in ts[l].pending} : l \in Loops}
  IN CHOOSE id \in 1..(Cardinality(used) + 1) :
       id \notin used /\ \A other \in 1..(id - 1) : other \in used

\* scheduleUpdate and the observer callbacks without clearTimeout.
scheduleKeeping(ts, loop, now) ==
  [ts EXCEPT ![loop] = [handle |-> FreshId(ts),
                        pending |-> ts[loop].pending
                                      \cup {[id |-> FreshId(ts), due |-> DueTime(loop, now)]},
                        scheduledAt |-> now, ran |-> 0,
                        replaced |-> ts[loop].pending # {}, flip |-> ts[loop].flip]]

\* if (handle) clearTimeout(handle); handle = setTimeout(rescan, window)
schedule(ts, loop, now) ==
  LET id == FreshId(ts)
      kept == {t \in ts[loop].pending : ts[loop].handle = 0 \/ t.id # ts[loop].handle}
  IN [ts EXCEPT ![loop] = [handle |-> id,
                           pending |-> kept \cup {[id |-> id, due |-> DueTime(loop, now)]},
                           scheduledAt |-> now, ran |-> 0,
                           replaced |-> ts[loop].pending # {}, flip |-> ts[loop].flip]]

\* The timer t of the loop has fired: the browser drops it, the rescan
\* runs; only updateCounter resets its handle (pendingUpdate = null).
expire(ts, loop, t) ==
  [ts EXCEPT ![loop].pending = @ \ {t},
             ![loop].handle = IF loop = "counter" THEN 0 ELSE @,
             ![loop].ran = @ + 1,
             ![loop].flip = ~@]

\* SessionTracker after init(): enabled, its row in the widget and shown,
\* no attach retry pending (retry counts the tryAttach timers).
NoTracker == [enabled |-> TRUE, row |-> "shown", retry |-> 0]

\* SoundNotification after init(): enabled, no generation seen; the page is
\* not generating (generating is isResponseGenerating()).  witnessed: a
\* check has seen the current generation in progress and the feature has
\* been enabled ever since; missed: the last response finished while the
\* feature was disabled; chime: the last check played the sound.
NoSound == [enabled |-> TRUE, isGenerating |-> FALSE, lastCheckTime |-> 0,
            generating |-> FALSE, witnessed |-> FALSE, missed |-> FALSE, chime |-> FALSE]

\* The features that the popup has a toggle for.
FEATURE_KEYS == {"tokenCounter", "promptNavigator", "responseStyling", "sessionTracker",
                 "contextCollector", "soundNotification"}

\* ResponseStyling as the script defines it: enabled.
NoStyling == [enabled |-> TRUE]

\* The popup before any toggle.  Of a toggle: the feature, the value stored,
\* whether the storage change event and the SETTINGS_CHANGED message are
\* still to be processed by the content script, and which came first.
NoPopup == [feature |-> "none", enabled |-> FALSE, event |-> FALSE, message |-> FALSE,
            first |-> "none"]

\* TokenCounter before its first update: enabled, not dismissed, no element,
\* no signature.  shown is the total the element displays ('~0' when it has
\* just been created), lastSignature what buildSignature returned last.
\* closed records that the user has pressed the close button and has not
\* switched the tokenCounter setting on since.
NoSignature == [url |-> "", totalTokens |-> -1, messages |-> <<>>]

NoCounter == [enabled |-> TRUE, counterDismissed |-> FALSE, element |-> "none",
              shown |-> 0, lastSignature |-> NoSignature, closed |-> FALSE]

\* A time SessionTracker keeps: Date.now() of a check, with the conversation
\* of the address at the check, and whether the user had sent a prompt
\* in that conversation since the count was last taken.  NoTime is null.
NoTime == [time |-> 0, conv |-> "none", witnessed |-> TRUE]

\* What localStorage holds for a conversation that was never saved.
NoData == [sessionStartTime |-> NoTime, lastPromptTime |-> NoTime, lastPromptCount |-> -1]

Conversations == {"a", "b"}

\* SessionTracker after init() on the conversation "a", empty so far: url
\* is the conversation of location.href and lastUrl what the poll has seen;
\* debounce: the observer's timer is pending; prompts: the prompts of each
\* conversation; sent: where the user has sent a prompt since the count was
\* last taken.
NoSession ==
  [url |-> "a", lastUrl |-> "a",
   sessionStartTime |-> NoTime, lastPromptTime |-> NoTime, lastPromptCount |-> 0,
   debounce |-> FALSE,
   saved |-> [c \in Conversations |->
                IF c = "a" THEN [NoData EXCEPT !.lastPromptCount = 0] ELSE NoData],
   prompts |-> [c \in Conversations |-> 0],
   sent |-> "none"]

\* The features besides the navigator's engine and the collector, at rest:
\* the page has just loaded at LoadTime with every setting on and a valid
\* license, no timer is pending and no jump is waiting.
Background ==
  /\ clock = LoadTime
  /\ lastJumpTime = 0
  /\ navigator = [enabled |-> TRUE, started |-> TRUE, widget |-> "shown"]
  /\ timers = NoTimers
  /\ storage = [usageCount |-> 0, licensed |-> TRUE]
  /\ requests = <<>>
  /\ freeJumps = 0
  /\ session = NoSession
  /\ counter = NoCounter
  /\ styling = NoStyling
  /\ popup = NoPopup
  /\ settings = [f \in FEATURE_KEYS |-> TRUE]
  /\ tracker = NoTracker
  /\ sound = NoSound

\* No helper function is being called.
NoCall == [fn |-> "none"]

\* lastOp of a handler that is no jump.
Idle(op) == [op |-> op, direction |-> "", from |-> 0, prior |-> NoAnchor,
             currentIndex |-> 0, target |-> NoTarget, applied |-> -1,
             result |-> [success |-> FALSE, reason |-> "", promptIndex |-> -1, total |-> -1],
             format |-> "", output |-> "", behavior |-> ""]

\* ------------------------------------------------------------ actions
\* PromptNavigator.init() on a loaded page: scan() fills prompts; nothing
\* has been jumped to.
PageLoaded(pages, views) ==
  /\ turns \in pages
  /\ \E v \in views : viewHeight = v.viewHeight /\ scrollHeight = v.scrollHeight
  /\ scrollTop = 0
  /\ prompts = scan(turns)
  /\ lastAnchor = NoAnchor
  /\ lastOp = Idle("init")
  /\ call = NoCall
  /\ enabled = TRUE
  /\ selectionMode = FALSE
  /\ allTurns = <<>>
  /\ selectedTurns = <<>>
  /\ lastClickedIndex = -1
  /\ currentFormat = "plain"
  /\ currentDelimiter = [preset |-> "newline", custom |-> <<>>]

NavInit(pages, views) == PageLoaded(pages, views) /\ Background

\* scrollToAnchor that takes a jump after exactly 300 ms for a rapid one.
scrollBehaviorWithin(now, last) == IF now - last <= RAPID_JUMP_MS THEN "auto" ELSE "smooth"

\* scrollToAnchor: behavior = isRapid ? 'auto' : 'smooth', isRapid being
\* (now - lastJumpTime) < 300.
scrollBehavior(now, last) == IF now - last < RAPID_JUMP_MS THEN "auto" ELSE "smooth"

\* jump() that records its target whether or not it found one.
recordAnchorAlways(j, last) == [element |-> j.target.element, kind |-> j.target.kind]

\* jump(): lastAnchor = { element: target.element, kind: target.kind } after
\* scrollToAnchor; the returns before it leave lastAnchor as it is.
recordAnchor(j, last) ==
  IF j.result.success THEN [element |-> j.target.element, kind |-> j.target.kind] ELSE last

\* handleJump(direction) once access is granted: scan(), then
\* jump(direction); a successful jump scrolls and records the chosen anchor.
ScanAndJump(direction) ==
  \E ps \in {scan(turns)} :
  \E j \in {jump(ps, getScrollContext, direction, lastAnchor)} :
     /\ prompts' = ps
     /\ scrollTop' = IF j.result.success THEN j.applied ELSE scrollTop
     /\ lastAnchor' = recordAnchor(j, lastAnchor)
     /\ lastOp' = [op |-> "jump", direction |-> direction, from |-> scrollTop,
                   prior |-> lastAnchor, currentIndex |-> j.currentIndex,
                   target |-> j.target, applied |-> j.applied, result |-> j.result,
                   format |-> "", output |-> "",
                   behavior |-> IF j.result.success THEN scrollBehavior(clock, lastJumpTime)
                                ELSE ""]
     /\ lastJumpTime' = IF j.result.success THEN clock ELSE lastJumpTime
     /\ UNCHANGED <<turns, viewHeight, scrollHeight, ccVars, call,
                    clock, navigator, timers, settings, tracker, sound>>

\* handleJump(direction) of a licensed user: canUseNavigation() allows it
\* and the usage count is left alone.
HandleJump(direction) ==
  /\ ScanAndJump(direction)
  /\ UNCHANGED <<storage, requests, freeJumps, session, styling, popup, counter>>

\* The user scrolls the page; the scroll listeners only refresh the status.
UserScroll(s) ==
  /\ s # scrollTop
  /\ s <= Max(0, scrollHeight - viewHeight)
  /\ scrollTop' = s
  /\ lastOp' = Idle("scroll")
  /\ UNCHANGED <<turns, viewHeight, scrollHeight, prompts, lastAnchor, ccVars, call, bgVars>>

Init == NavInit(UNION {Pages(n) : n \in 0..MaxTurns}, Views)

Next ==
  \/ \E direction \in {"previous", "next"} : HandleJump(direction)
  \/ \E s \in ScrollStops : UserScroll(s)

Spec == Init /\ [][Next]_vars

\* ------------------------------------------------- a page that changes
\* The elements the page can hold, in document order: element i is a user
\* turn, an assistant turn or a turn without any role signal, and the turns
\* are stacked, 60 pixels apart, tall and short in alternation.
PageElement(i) ==
  MkTurn(i,
         IF i % 3 = 1 THEN SigUser ELSE IF i % 3 = 2 THEN SigAssistant ELSE SigNone,
         [top |-> 60 * (i - 1), height |-> IF i % 2 = 1 THEN 50 ELSE 20, hidden |-> FALSE])

PageViews == {v \in Views : v.viewHeight = 40}

\* The page attaches element i at its place in the document.
AttachTurn(i) ==
  /\ i \notin {t.id : t \in Range(turns)}
  /\ LET before == SelectSeq(turns, LAMBDA t : t.id < i)
         after == SelectSeq(turns, LAMBDA t : t.id > i)
     IN turns' = before \o <<PageElement(i)>> \o after
  /\ lastOp' = Idle("mutation")
  /\ UNCHANGED <<viewHeight, scrollHeight, scrollTop, prompts, lastAnchor, ccVars, call, bgVars>>

\* The page removes a turn (a message is deleted, the conversation is switched).
DetachTurn(k) ==
  /\ turns' = SubSeq(turns, 1, k - 1) \o SubSeq(turns, k + 1, Len(turns))
  /\ lastOp' = Idle("mutation")
  /\ UNCHANGED <<viewHeight, scrollHeight, scrollTop, prompts, lastAnchor, ccVars, call, bgVars>>

\* The page hides or shows a turn (display, visibility or opacity changes).
RestyleTurn(k) ==
  /\ turns' = [turns EXCEPT ![k].hidden = ~turns[k].hidden]
  /\ lastOp' = Idle("mutation")
  /\ UNCHANGED <<viewHeight, scrollHeight, scrollTop, prompts, lastAnchor, ccVars, call, bgVars>>

\* The debounced MutationObserver callback, and the 2 s interval: scan().
Rescan ==
  /\ prompts' = scan(turns)
  /\ lastOp' = Idle("scan")
  /\ UNCHANGED <<turns, viewHeight, scrollHeight, scrollTop, lastAnchor, ccVars, call, bgVars>>

PageInit == NavInit({<<>>}, PageViews)

PageNext ==
  \/ \E i \in 1..MaxTurns : AttachTurn(i)
  \/ \E k \in 1..Len(turns) : DetachTurn(k)
  \/ \E k \in 1..Len(turns) : RestyleTurn(k)
  \/ Rescan
  \/ \E direction \in {"previous", "next"} : HandleJump(direction)
  \/ \E s \in ScrollStops : UserScroll(s)

SpecPage == PageInit /\ [][PageNext]_vars

\* ------------------------------------------- the collector at work
\* lastOp of a collector handler that wrote output to the clipboard.
Copied(op, format, output) == [Idle(op) EXCEPT !.format = format, !.output = output]

\* enterSelectionMode(): scanTurns() and the checkboxes, one per turn kept.
EnterSelectionMode ==
  /\ selectionMode' = TRUE
  /\ allTurns' = scanTurns(turns)
  /\ lastOp' = Idle("enter")
  /\ UNCHANGED <<navVars, call, bgVars, enabled, selectedTurns, lastClickedIndex, currentFormat,
                 currentDelimiter>>

\* exitSelectionMode() that leaves the selection as it is.
exitSelectionModeKeeping ==
  [selectionMode |-> FALSE, selectedTurns |-> selectedTurns,
   lastClickedIndex |-> lastClickedIndex]

\* exitSelectionMode() that forgets to reset the last clicked index.
exitSelectionModeNoReset ==
  [selectionMode |-> FALSE, selectedTurns |-> <<>>, lastClickedIndex |-> lastClickedIndex]

\* exitSelectionMode(): what it assigns; the selection is dropped.
exitSelectionMode ==
  [selectionMode |-> FALSE, selectedTurns |-> <<>>, lastClickedIndex |-> -1]

ExitSelectionMode ==
  /\ selectionMode' = exitSelectionMode.selectionMode
  /\ selectedTurns' = exitSelectionMode.selectedTurns
  /\ lastClickedIndex' = exitSelectionMode.lastClickedIndex
  /\ lastOp' = Idle("exit")
  /\ UNCHANGED <<navVars, call, bgVars, enabled, allTurns, currentFormat, currentDelimiter>>

\* toggleSelectionMode(): a click on the floating button, which is there
\* while the collector is enabled.
ToggleSelectionMode ==
  enabled /\ IF selectionMode THEN ExitSelectionMode ELSE EnterSelectionMode

\* setEnabled(false) = disable(): exitSelectionMode(), and the floating
\* button is removed.
Disable ==
  /\ enabled' = FALSE
  /\ selectionMode' = exitSelectionMode.selectionMode
  /\ selectedTurns' = exitSelectionMode.selectedTurns
  /\ lastClickedIndex' = exitSelectionMode.lastClickedIndex
  /\ lastOp' = Idle("disable")
  /\ UNCHANGED <<navVars, call, bgVars, allTurns, currentFormat, currentDelimiter>>

\* setEnabled(true) = enable(): the floating button is created.
Enable ==
  /\ enabled' = TRUE
  /\ lastOp' = Idle("enable")
  /\ UNCHANGED <<navVars, call, bgVars, selectionMode, allTurns, selectedTurns, lastClickedIndex,
                 currentFormat, currentDelimiter>>

\* The panel's close button, and Escape while in selection mode.
CloseSelection == selectionMode /\ ExitSelectionMode

\* The selection handlers change the selection and nothing else.
Selected(op) ==
  /\ lastOp' = Idle(op)
  /\ UNCHANGED <<navVars, call, bgVars, enabled, selectionMode, allTurns, currentFormat, currentDelimiter>>

\* handleTurnClick(index, isShiftClick): a click on the checkbox of turn index.
HandleTurnClick(index, isShiftClick) ==
  /\ selectionMode
  /\ selectedTurns' =
       IF isShiftClick /\ lastClickedIndex >= 0
       THEN selectRange(selectedTurns, Min(lastClickedIndex, index),
                        Max(lastClickedIndex, index))
       ELSE toggleTurn(selectedTurns, index)
  /\ lastClickedIndex' = index
  /\ Selected(IF isShiftClick /\ lastClickedIndex >= 0 THEN "range" ELSE "click")

\* clearSelection()
ClearSelection ==
  /\ selectionMode
  /\ selectedTurns' = <<>>
  /\ lastClickedIndex' = -1
  /\ Selected("clear")

\* selectAll()
SelectAll ==
  /\ selectionMode
  /\ selectedTurns' = selectRange(selectedTurns, 0, Len(allTurns) - 1)
  /\ UNCHANGED lastClickedIndex
  /\ Selected("all")

\* selectLast(n): clearSelection(), then the last n turns.
SelectLast(n) ==
  /\ selectionMode
  /\ selectedTurns' = selectRange(<<>>, Max(0, Len(allTurns) - n), Len(allTurns) - 1)
  /\ lastClickedIndex' = -1
  /\ Selected("last")

\* selectByRole(role): clearSelection(), then the turns of that role.
SelectByRole(role) ==
  /\ selectionMode
  /\ selectedTurns' = selectRoleFrom(<<>>, role, 0)
  /\ lastClickedIndex' = -1
  /\ Selected("role")

\* setDelimiter(delimiter) of a preset button, and the input of a typed one.
SetDelimiter(delimiter) ==
  /\ selectionMode
  /\ delimiter # currentDelimiter
  /\ currentDelimiter' = delimiter
  /\ lastOp' = Idle("delimiter")
  /\ UNCHANGED <<navVars, call, bgVars, enabled, selectionMode, allTurns, selectedTurns,
                 lastClickedIndex, currentFormat>>

\* A click on a format option: nothing with an empty selection; else
\* copyAs(format), which writes the output unless it is empty; the clipboard
\* may refuse (granted = FALSE).
CopyAs(format, granted) ==
  /\ selectionMode
  /\ \E output \in {formatOutputAs(format)} :
       lastOp' = IF Len(selectedTurns) = 0 \/ output = "" THEN Idle("copy-nothing")
                 ELSE IF granted THEN Copied("copy", format, output)
                 ELSE Copied("copy-refused", format, output)
  /\ UNCHANGED <<navVars, ccVars, call, bgVars>>

\* Ctrl+Enter in selection mode: copyToClipboard() writes
\* formatOutput() = formatOutputAs(currentFormat) unless it is empty.
CopyToClipboard(granted) ==
  /\ selectionMode
  /\ \E output \in {formatOutputAs(currentFormat)} :
       lastOp' = IF output = "" THEN Idle("copy-nothing")
                 ELSE IF granted THEN Copied("copy", currentFormat, output)
                 ELSE Copied("copy-refused", currentFormat, output)
  /\ UNCHANGED <<navVars, ccVars, call, bgVars>>

Formats == {"plain", "json", "xml"}

\* Delimiters: the three preset buttons, and two typed ones.
Delimiters ==
  {[preset |-> p, custom |-> <<>>] : p \in {"newline", "dash", "equals"}}
  \cup {[preset |-> "custom", custom |-> c] : c \in {<<>>, <<"\\", "n", "*", "\\", "t">>}}

\* The conversations the collector meets: of n turns, stacked and visible;
\* the messages are the user's and the assistant's in alternation, and one
\* turn may be a reasoning indicator instead.
ExportPages(n) ==
  {[i \in 1..n |-> MkTurn(i, IF i = k THEN SigThinking
                             ELSE IF (i - (IF k \in 1..i THEN 1 ELSE 0)) % 2 = 1 THEN SigUser
                             ELSE SigAssistant,
                          [top |-> 60 * (i - 1), height |-> 50, hidden |-> FALSE])] :
     k \in 0..n}

\* ContextCollector.init() on a loaded page: the format and the delimiter
\* come from localStorage.
ExportInit ==
  /\ turns \in UNION {ExportPages(n) : n \in 0..MaxTurns}
  /\ viewHeight = 40 /\ scrollHeight = 200 /\ scrollTop = 0
  /\ prompts = scan(turns)
  /\ lastAnchor = NoAnchor
  /\ lastOp = Idle("init")
  /\ call = NoCall
  /\ Background
  /\ enabled = TRUE
  /\ selectionMode = FALSE
  /\ allTurns = <<>>
  /\ selectedTurns = <<>>
  /\ lastClickedIndex = -1
  /\ currentFormat \in Formats
  /\ currentDelimiter \in Delimiters

ExportNext ==
  \/ ToggleSelectionMode
  \/ CloseSelection
  \/ \E index \in 0..(Len(allTurns) - 1), isShiftClick \in BOOLEAN :
       HandleTurnClick(index, isShiftClick)
  \/ ClearSelection
  \/ SelectAll
  \/ \E n \in {2, 4} : SelectLast(n)
  \/ \E role \in {"user", "assistant"} : SelectByRole(role)
  \/ \E delimiter \in Delimiters : SetDelimiter(delimiter)
  \/ \E format \in Formats, granted \in BOOLEAN : CopyAs(format, granted)
  \/ \E granted \in BOOLEAN : CopyToClipboard(granted)

SpecExport == ExportInit /\ [][ExportNext]_vars

\* ------------------------------------- the roles on one page
\* The role that scan(), styleTurns() and getCurrentPromptCount() give to
\* the k-th turn of the page: each walks collectConversationTurns() with
\* forEach((turn, index)) and calls determineMessageRole(turn, index).
scannedRole(ts, k) == determineMessageRole(ts[k], k - 1)

\* Pages whose turns carry a role, no signal at all, or a reasoning
\* indicator, and are displayed or have an empty box.
RolePages(n) ==
  {[i \in 1..n |-> MkTurn(i, f[i][1],
                          [top |-> 60 * (i - 1), height |-> IF f[i][2] THEN 50 ELSE 0,
                           hidden |-> FALSE])] :
     f \in [1..n -> {SigUser, SigAssistant, SigNone, SigThinking} \X BOOLEAN]}

RolesInit ==
  /\ turns \in UNION {RolePages(n) : n \in 1..MaxTurns}
  /\ viewHeight = 40 /\ scrollHeight = 200 /\ scrollTop = 0
  /\ prompts = scan(turns)
  /\ lastAnchor = NoAnchor
  /\ lastOp = Idle("init")
  /\ call = NoCall
  /\ Background
  /\ enabled = TRUE
  /\ selectionMode = FALSE
  /\ allTurns = <<>>
  /\ selectedTurns = <<>>
  /\ lastClickedIndex = -1
  /\ currentFormat = "plain"
  /\ currentDelimiter = [preset |-> "newline", custom |-> <<>>]

\* The page stays as it is while the navigator rescans it and the user
\* selects turns in the collector.
RolesNext ==
  \/ Rescan
  \/ ToggleSelectionMode
  \/ \E index \in 0..(Len(allTurns) - 1), isShiftClick \in BOOLEAN :
       HandleTurnClick(index, isShiftClick)
  \/ SelectAll

SpecRoles == RolesInit /\ [][RolesNext]_vars

\* --------------------------- the collector on a page that changes
\* The turns are those of PageElement; the page attaches and removes them
\* while the collector is used, switched off and switched on.
SelectInit == NavInit({<<>>}, PageViews)

SelectNext ==
  \/ \E i \in 1..MaxTurns : AttachTurn(i)
  \/ \E k \in 1..Len(turns) : DetachTurn(k)
  \/ ToggleSelectionMode
  \/ CloseSelection
  \/ Disable
  \/ Enable
  \/ \E index \in 0..(Len(allTurns) - 1), isShiftClick \in BOOLEAN :
       HandleTurnClick(index, isShiftClick)
  \/ ClearSelection
  \/ SelectAll
  \/ \E n \in {2, 4} : SelectLast(n)
  \/ \E role \in {"user", "assistant"} : SelectByRole(role)

SpecSelect == SelectInit /\ [][SelectNext]_vars

\* ------------------------------------------- the helper functions
\* A helper function is called with arguments drawn from small sets; the
\* call returns once.  Nothing else happens meanwhile.
PureInit(calls) ==
  /\ turns = <<>>
  /\ viewHeight = 40 /\ scrollHeight = 200 /\ scrollTop = 0
  /\ prompts = <<>>
  /\ lastAnchor = NoAnchor
  /\ lastOp = Idle("init")
  /\ enabled = TRUE
  /\ selectionMode = FALSE
  /\ allTurns = <<>>
  /\ selectedTurns = <<>>
  /\ lastClickedIndex = -1
  /\ currentFormat = "plain"
  /\ currentDelimiter = [preset |-> "newline", custom |-> <<>>]
  /\ call \in calls
  /\ Background

Return(result) ==
  /\ ~call.done
  /\ call' = [call EXCEPT !.done = TRUE, !.result = result]
  /\ UNCHANGED <<navVars, lastOp, ccVars, bgVars>>

\* The markup determineMessageRole may meet: the role attribute absent,
\* empty, or naming a role (ChatGPT also renders tool and system messages);
\* test ids and aria-labels that hold none, one or two of the substrings.
RoleElements ==
  [roleAttr : {NoAttr, "", "user", "assistant", "tool"},
   nestedRole : {NoAttr, "", "user", "assistant", "system"},
   testId : {{}, {"user"}, {"assistant"}, {"model"}, {"gpt"}, {"user", "gpt"}},
   ariaLabel : {{}, {"you"}, {"chatgpt"}, {"assistant"}, {"you", "chatgpt"}}]

RoleInit ==
  PureInit({[fn |-> "determineMessageRole", el |-> el, index |-> index,
             done |-> FALSE, result |-> ""] :
              el \in RoleElements, index \in 0..MaxIndex})

CallDetermineMessageRole ==
  /\ call.fn = "determineMessageRole"
  /\ Return(determineMessageRole(call.el, call.index))

SpecRole == RoleInit /\ [][CallDetermineMessageRole]_vars

\* The texts estimateTokensFromText is called with: up to MaxPieces pieces,
\* each a letter, a long word, a blank, a punctuation mark or a line break.
TextPieces ==
  {<<"a">>, <<"a", "b", "c", "d", "e", "f", "g", "h", "i">>, <<" ">>, <<"!">>, <<"\n", " ">>}

\* The size labels parseFileSizeToBytes is called with.
SizePieces ==
  {<<"1">>, <<"5">>, <<"0">>, <<".">>, <<",">>, <<" ">>, <<"x">>, <<"B">>,
   <<"K", "B">>, <<"k", "i", "b">>, <<"M", "b">>, <<"G", "i", "B">>, <<"t", "b">>}

\* Every concatenation of at most n of the pieces.
RECURSIVE Composed(_, _)
Composed(pieces, n) ==
  IF n = 0 THEN {<<>>}
  ELSE LET shorter == Composed(pieces, n - 1)
       IN shorter \cup {t \o piece : t \in shorter, piece \in pieces}

TextInit ==
  PureInit({[fn |-> "estimateTokensFromText", text |-> text, segmenter |-> segmenter,
             done |-> FALSE, result |-> NoEstimate] :
               text \in Composed(TextPieces, MaxPieces), segmenter \in BOOLEAN})

CallEstimateTokensFromText ==
  /\ call.fn = "estimateTokensFromText"
  /\ Return(estimateTokensFromTextIn(call.text, call.segmenter))

SpecText == TextInit /\ [][CallEstimateTokensFromText]_vars

\* The arithmetic of estimateTokensFromText on the counts of a text that is
\* not empty once cleaned: it has a character that is not white space.
CountsInit ==
  PureInit({[fn |-> "estimateFromCounts", words |-> words, characters |-> characters,
             done |-> FALSE, result |-> NoEstimate] :
               words \in 0..MaxWords, characters \in 1..MaxCharacters})

CallEstimateFromCounts ==
  /\ call.fn = "estimateFromCounts"
  /\ Return(estimateFromCounts(call.words, call.characters))

SpecCounts == CountsInit /\ [][CallEstimateFromCounts]_vars

BytesInit ==
  PureInit({[fn |-> "estimateTokensFromBytes", bytes |-> bytes,
             done |-> FALSE, result |-> 0] : bytes \in 0..MaxBytes})

CallEstimateTokensFromBytes ==
  /\ call.fn = "estimateTokensFromBytes"
  /\ Return(estimateTokensFromBytes(call.bytes))

SpecBytes == BytesInit /\ [][CallEstimateTokensFromBytes]_vars

FileSizeInit ==
  PureInit({[fn |-> "parseFileSizeToBytes", sizeText |-> sizeText,
             done |-> FALSE, result |-> Decimal(0, 0)] :
               sizeText \in Composed(SizePieces, MaxSizePieces)})

CallParseFileSizeToBytes ==
  /\ call.fn = "parseFileSizeToBytes"
  /\ Return(parseFileSizeToBytes(call.sizeText))

SpecFileSize == FileSizeInit /\ [][CallParseFileSizeToBytes]_vars

\* --------------------------------------------------- the token counter
\* estimateTokensFromText(text).tokens of the texts that the turns of the
\* pages carry, computed once for each.
TokensOfTexts == [i \in 1..Len(Texts) |-> estimateTokensFromText(Texts[i])]

tokensOfText(text) ==
  IF \E i \in 1..Len(Texts) : Texts[i] = text
  THEN TokensOfTexts[CHOOSE i \in 1..Len(Texts) : Texts[i] = text]
  ELSE estimateTokensFromText(text)

\* gatherConversation(): the articles that have a text, each with its id,
\* its role (decided with the article's index among all articles) and the
\* tokens and the length of its text.
gatherConversation(ts) ==
  SelectSeq([k \in 1..Len(ts) |->
               [id |-> ts[k].id,
                role |-> determineMessageRole(ts[k], k - 1),
                tokens |-> tokensOfText(extractTurnText(ts[k])),
                length |-> Len(extractTurnText(ts[k]))]],
            LAMBDA message : message.length > 0)

\* totals.totalTokens of estimateConversationStats (no attachments).
RECURSIVE totalTokens(_)
totalTokens(messages) ==
  IF messages = <<>> THEN 0
  ELSE messages[1].tokens + totalTokens(Tail(messages))

\* buildSignature(): the address, the total, and id, role, tokens and
\* length of every message.
buildSignature(url, messages) ==
  [url |-> url, totalTokens |-> totalTokens(messages), messages |-> messages]

\* ensureCounterElement(): nothing when dismissed or disabled; else the
\* element, created showing '~0' when the document has none.
ensureCounterElement(c) ==
  IF c.counterDismissed \/ ~c.enabled THEN c
  ELSE IF c.element = "none" THEN [c EXCEPT !.element = "shown", !.shown = 0]
  ELSE c

\* updateCounter(): nothing while disabled or dismissed; the element is
\* ensured; nothing more when the conversation has no message and no
\* attachment (estimateConversationStats returns null) or when the
\* signature is lastSignature; else the totals are rendered.
updateCounter(c, ts, url) ==
  LET ensured == ensureCounterElement(c)
      messages == gatherConversation(ts)
      signature == buildSignature(url, messages)
  IN IF ~c.enabled \/ ensured.element = "none" THEN c
     ELSE IF messages = <<>> THEN ensured
     ELSE IF signature = c.lastSignature THEN ensured
     ELSE [ensured EXCEPT !.lastSignature = signature, !.shown = signature.totalTokens]

\* hideCounter(): the close button removes the element and sets
\* counterDismissed.
hideCounter(c) ==
  IF c.element = "none" THEN c
  ELSE [c EXCEPT !.counterDismissed = TRUE, !.element = "none"]

\* TokenCounter.enable(): enabled, counterDismissed = false (scheduleUpdate
\* is the caller's step on timers).
counterEnable(c) == [c EXCEPT !.enabled = TRUE, !.counterDismissed = FALSE]

\* TokenCounter.disable(): the element is removed.
counterDisable(c) == [c EXCEPT !.enabled = FALSE, !.element = "none"]

\* ---------------------------------------------- the refresh loops run
\* The clock advances a tenth of a second.
Tick ==
  /\ clock < LoadTime + MaxTime
  /\ clock' = clock + 1
  /\ UNCHANGED <<navVars, lastOp, ccVars, call,
                 lastJumpTime, navigator, timers, storage, requests, freeJumps, session, styling, popup, counter, settings, tracker, sound>>

\* The three observers' callbacks, run in the order the features started.
scheduleAll(ts, now) == schedule(schedule(schedule(ts, "counter", now), "navigator", now),
                                 "styling", now)

\* A timer set now is due within the time the clock covers.
InTime(loop) == clock + Window(loop) <= LoadTime + MaxTime

\* The page attaches or detaches a turn and the browser notifies the three
\* MutationObservers (childList): each schedules its rescan.
ObservedMutation(i) ==
  /\ \A loop \in Loops : InTime(loop)
  /\ IF i \in {t.id : t \in Range(turns)}
     THEN turns' = SelectSeq(turns, LAMBDA t : t.id # i)
     ELSE turns' = SelectSeq(turns, LAMBDA t : t.id < i) \o <<PageElement(i)>>
                     \o SelectSeq(turns, LAMBDA t : t.id > i)
  /\ timers' = scheduleAll(timers, clock)
  /\ lastOp' = Idle("mutation")
  /\ UNCHANGED <<viewHeight, scrollHeight, scrollTop, prompts, lastAnchor, ccVars, call,
                 clock, lastJumpTime, navigator, storage, requests, freeJumps, session, styling, popup, counter, settings, tracker, sound>>

\* resize, hashchange, visibilitychange, or a characterData mutation (text
\* streaming into a turn): only the token counter listens, scheduleUpdate().
CounterEvent ==
  /\ InTime("counter")
  /\ timers' = schedule(timers, "counter", clock)
  /\ lastOp' = Idle("resize")
  /\ UNCHANGED <<navVars, ccVars, call,
                 clock, lastJumpTime, navigator, storage, requests, freeJumps, session, styling, popup, counter, settings, tracker, sound>>

\* What a rescan writes into the document, and so which observers the
\* browser notifies after it.  updateCounter() creates or re-renders the
\* counter element when the signature has changed (childList, all three
\* observers) and writes nothing otherwise.  updateStatus() assigns the
\* widget label's textContent: an engine that replaces the text node
\* reports childList, one that rewrites the node's data reports
\* characterData (observed by the token counter only), one that skips an
\* identical text reports nothing.  styleTurns() sets attributes and
\* classes, which no observer of the three watches.
Notifications(loop) ==
  CASE loop = "counter" -> {"none", "all"}
    [] loop = "navigator" -> {"none", "counter", "all"}
    [] loop = "styling" -> {"none"}

notify(ts, notified, now) ==
  CASE notified = "none" -> ts
    [] notified = "counter" -> schedule(ts, "counter", now)
    [] notified = "all" -> scheduleAll(ts, now)

\* A debounce timer that is due fires: updateCounter(); scan() and
\* updateStatus(); styleTurns().
TimerExpiry(loop) ==
  \E t \in timers[loop].pending :
  \E notified \in Notifications(loop) :
    /\ t.due <= clock
    /\ notified = "counter" => InTime("counter")
    /\ notified = "all" => \A l \in Loops : InTime(l)
    /\ timers' = notify(expire(timers, loop, t), notified, clock)
    /\ prompts' = IF loop = "navigator" THEN scan(turns) ELSE prompts
    /\ counter' = IF loop = "counter" THEN updateCounter(counter, turns, session.url)
                  ELSE counter
    /\ lastOp' = Idle(loop)
    /\ UNCHANGED <<turns, viewHeight, scrollHeight, scrollTop, lastAnchor, ccVars, call,
                   clock, lastJumpTime, navigator, storage, requests, freeJumps, session, styling, popup,
                   settings, tracker, sound>>

\* The turns that come and go while the loops are watched.
StreamedTurns == {1, 2}

\* The features have started on an empty conversation; TokenCounter.init()
\* has called scheduleUpdate().
DebounceInit ==
  /\ PageLoaded({<<>>}, PageViews)
  /\ clock = LoadTime
  /\ lastJumpTime = 0
  /\ navigator = [enabled |-> TRUE, started |-> TRUE, widget |-> "shown"]
  /\ timers = schedule(NoTimers, "counter", LoadTime)
  /\ storage = [usageCount |-> 0, licensed |-> TRUE]
  /\ requests = <<>>
  /\ freeJumps = 0
  /\ session = NoSession
  /\ counter = NoCounter
  /\ styling = NoStyling
  /\ popup = NoPopup
  /\ settings = [f \in FEATURE_KEYS |-> TRUE]
  /\ tracker = NoTracker
  /\ sound = NoSound

DebounceNext ==
  \/ Tick
  \/ \E i \in StreamedTurns : ObservedMutation(i)
  \/ CounterEvent
  \/ \E loop \in Loops : TimerExpiry(loop)

\* The browser fires a timer that is due, and time passes.
SpecDebounce ==
  /\ DebounceInit
  /\ [][DebounceNext]_vars
  /\ WF_vars(Tick)
  /\ \A loop \in Loops : WF_vars(TimerExpiry(loop))

\* ------------------------------------------------ settings changes
\* PromptNavigator.enable(): the widget is created, or shown again; scan().
navigatorEnable(nv) == [nv EXCEPT !.enabled = TRUE, !.widget = "shown"]

\* PromptNavigator.disable(): the widget, if there is one, is hidden.
navigatorDisable(nv) ==
  [nv EXCEPT !.enabled = FALSE, !.widget = IF @ = "none" THEN "none" ELSE "hidden"]

\* SessionTracker.enable(): tryAttach() shows the row when the widget
\* exists and otherwise sets a timer to try again.
trackerEnable(tr, widget) ==
  IF widget # "none"
  THEN [tr EXCEPT !.enabled = TRUE, !.row = "shown"]
  ELSE [tr EXCEPT !.enabled = TRUE, !.retry = @ + 1]

\* SessionTracker.disable(): the row, if there is one, is hidden.
trackerDisable(tr) ==
  [tr EXCEPT !.enabled = FALSE, !.row = IF @ = "none" THEN "none" ELSE "hidden"]

\* updateSessionTrackerVisibility() that looks at the sessionTracker
\* setting alone.
updateSessionTrackerVisibilityAlone(st, tr, widget) ==
  IF st.sessionTracker THEN trackerEnable(tr, widget) ELSE trackerDisable(tr)

\* updateSessionTrackerVisibility()
updateSessionTrackerVisibility(st, tr, widget) ==
  IF st.sessionTracker /\ st.promptNavigator THEN trackerEnable(tr, widget)
  ELSE trackerDisable(tr)

\* SoundNotification.disable(): the observer is disconnected; isGenerating
\* stays as it is.  (What had been witnessed no longer counts.)
soundDisable(sn) ==
  [sn EXCEPT !.enabled = FALSE, !.witnessed = FALSE, !.chime = FALSE]

\* SoundNotification.enable(): nothing when already enabled.
soundEnable(sn) == [sn EXCEPT !.enabled = TRUE, !.chime = FALSE]

SettingKeys == {"tokenCounter", "promptNavigator", "sessionTracker", "soundNotification"}

\* The callback that initializeAllFeatures() gives to onSettingsChanged,
\* with currentSettings = st: every feature's setEnabled is called with its
\* setting, then updateSessionTrackerVisibility().  TokenCounter.enable()
\* clears counterDismissed and calls scheduleUpdate(); ContextCollector's
\* disable() leaves the selection mode.
SettingsApplied(st) ==
  \E nv \in {IF st.promptNavigator THEN navigatorEnable(navigator)
             ELSE navigatorDisable(navigator)} :
  \E tc \in {IF st.tokenCounter THEN counterEnable(counter) ELSE counterDisable(counter)} :
    /\ settings' = st
    /\ timers' = IF st.tokenCounter THEN schedule(timers, "counter", clock) ELSE timers
    /\ counter' = [tc EXCEPT !.closed = @ /\ ~(st.tokenCounter /\ ~settings.tokenCounter)]
    /\ navigator' = nv
    /\ prompts' = IF st.promptNavigator THEN scan(turns) ELSE prompts
    /\ styling' = [enabled |-> st.responseStyling]
    /\ enabled' = st.contextCollector
    /\ selectionMode' = IF st.contextCollector THEN selectionMode
                        ELSE exitSelectionMode.selectionMode
    /\ selectedTurns' = IF st.contextCollector THEN selectedTurns
                        ELSE exitSelectionMode.selectedTurns
    /\ lastClickedIndex' = IF st.contextCollector THEN lastClickedIndex
                           ELSE exitSelectionMode.lastClickedIndex
    /\ sound' = IF st.soundNotification THEN soundEnable(sound) ELSE soundDisable(sound)
    /\ tracker' = updateSessionTrackerVisibility(st, tracker, nv.widget)
    /\ lastOp' = Idle("settings")
    /\ UNCHANGED <<turns, viewHeight, scrollHeight, scrollTop, lastAnchor, allTurns,
                   currentFormat, currentDelimiter, call,
                   clock, lastJumpTime, storage, requests, freeJumps, session>>

\* chrome.storage.onChanged for a settings key: currentSettings[key] takes
\* the new value and the callback runs.
SettingsChanged(key, value) ==
  SettingsApplied([settings EXCEPT ![key] = value]) /\ UNCHANGED popup

\* chrome.storage.onChanged for selectedChime (the popup's chime picker):
\* no feature's setting changes and the callback runs.
ChimeChanged == SettingsApplied(settings) /\ UNCHANGED popup

\* The counter's close button: hideCounter().  The removal is a childList
\* mutation, which the three observers are notified of.
Dismiss ==
  /\ counter.element # "none"
  /\ \A loop \in Loops : InTime(loop)
  /\ counter' = [hideCounter(counter) EXCEPT !.closed = TRUE]
  /\ timers' = scheduleAll(timers, clock)
  /\ lastOp' = Idle("dismiss")
  /\ UNCHANGED <<navVars, ccVars, call,
                 clock, lastJumpTime, navigator, storage, requests, freeJumps, session, styling, popup,
                 settings, tracker, sound>>

\* The popup's SETTINGS_CHANGED message for promptNavigator:
\* PromptNavigator.setEnabled(message.enabled), then
\* updateSessionTrackerVisibility() with currentSettings as they are.
MessagePromptNavigator(value) ==
  \E nv \in {IF value THEN navigatorEnable(navigator) ELSE navigatorDisable(navigator)} :
    /\ navigator' = nv
    /\ prompts' = IF value THEN scan(turns) ELSE prompts
    /\ \E tr \in {updateSessionTrackerVisibility(settings, tracker, nv.widget)} :
         tr.retry <= MaxRetries /\ tracker' = tr
    /\ lastOp' = Idle("message")
    /\ UNCHANGED <<turns, viewHeight, scrollHeight, scrollTop, lastAnchor, ccVars, call,
                   clock, lastJumpTime, timers, storage, requests, freeJumps, session, styling, popup, counter, settings, sound>>

\* The popup's SETTINGS_CHANGED message for sessionTracker:
\* updateSessionTrackerVisibility() with currentSettings as they are.
MessageSessionTracker ==
  /\ \E tr \in {updateSessionTrackerVisibility(settings, tracker, navigator.widget)} :
       tr.retry <= MaxRetries /\ tracker' = tr
  /\ lastOp' = Idle("message")
  /\ UNCHANGED <<navVars, ccVars, call,
                 clock, lastJumpTime, navigator, timers, storage, requests, freeJumps, session, styling, popup, counter, settings, sound>>

\* The page renders its body anew and the widget, with the tracker row in
\* it, is gone from the document.
PageRemovesWidget ==
  /\ navigator.widget # "none"
  /\ navigator' = [navigator EXCEPT !.widget = "none"]
  /\ tracker' = [tracker EXCEPT !.row = "none"]
  /\ lastOp' = Idle("mutation")
  /\ UNCHANGED <<navVars, ccVars, call,
                 clock, lastJumpTime, timers, storage, requests, freeJumps, session, styling, popup, counter, settings, sound>>

\* tryAttach(), from its timer: the row is created and shown when the
\* widget exists; otherwise the timer is set again.
tryAttach(tr, widget) ==
  IF widget # "none" THEN [tr EXCEPT !.row = "shown", !.retry = @ - 1] ELSE tr

AttachRetry ==
  /\ tracker.retry > 0
  /\ tracker' = tryAttach(tracker, navigator.widget)
  /\ lastOp' = Idle("retry")
  /\ UNCHANGED <<navVars, ccVars, call,
                 clock, lastJumpTime, navigator, timers, storage, requests, freeJumps, session, styling, popup, counter, settings, sound>>

\* initializeAllFeatures() with the stored settings st, on an empty
\* conversation: a feature whose setting is on is started with init(), the
\* others are disabled; PromptNavigator and SoundNotification start
\* enabled, and TokenCounter.init() calls scheduleUpdate().
Loaded(st) ==
  /\ PageLoaded({<<>>}, PageViews)
  /\ clock = LoadTime
  /\ lastJumpTime = 0
  /\ settings = st
  /\ navigator = IF st.promptNavigator
                 THEN [enabled |-> TRUE, started |-> TRUE, widget |-> "shown"]
                 ELSE [enabled |-> FALSE, started |-> FALSE, widget |-> "none"]
  /\ timers = IF st.tokenCounter THEN schedule(NoTimers, "counter", LoadTime) ELSE NoTimers
  /\ storage = [usageCount |-> 0, licensed |-> TRUE]
  /\ requests = <<>>
  /\ freeJumps = 0
  /\ session = NoSession
  /\ counter = IF st.tokenCounter THEN NoCounter ELSE counterDisable(NoCounter)
  /\ styling = [enabled |-> st.responseStyling]
  /\ popup = NoPopup
  /\ tracker = IF st.sessionTracker /\ st.promptNavigator THEN NoTracker
               ELSE [NoTracker EXCEPT !.enabled = FALSE, !.row = "none"]
  /\ sound = IF st.soundNotification THEN NoSound ELSE [NoSound EXCEPT !.enabled = FALSE]

AllOn == [f \in FEATURE_KEYS |-> TRUE]

\* ------------------------------------------------ the popup's toggles
\* The onMessage listener of initializeAllFeatures() for SETTINGS_CHANGED
\* with message.feature and message.enabled: the feature's setEnabled, and
\* updateSessionTrackerVisibility() with currentSettings as they are for
\* promptNavigator and sessionTracker.  (The test chime that follows
\* SoundNotification.setEnabled(true) is not a completion chime.)
SettingsMessage(feature, value) ==
  \E nv \in {IF feature # "promptNavigator" THEN navigator
             ELSE IF value THEN navigatorEnable(navigator)
             ELSE navigatorDisable(navigator)} :
  \E tr \in {IF feature \in {"promptNavigator", "sessionTracker"}
             THEN updateSessionTrackerVisibility(settings, tracker, nv.widget)
             ELSE tracker} :
  \E on \in {IF feature = "contextCollector" THEN value ELSE enabled} :
    /\ tr.retry <= MaxRetries
    /\ navigator' = nv
    /\ tracker' = tr
    /\ prompts' = IF feature = "promptNavigator" /\ value THEN scan(turns) ELSE prompts
    /\ counter' = IF feature # "tokenCounter" THEN counter
                  ELSE IF value THEN [counterEnable(counter) EXCEPT !.closed = FALSE]
                  ELSE counterDisable(counter)
    /\ timers' = IF feature = "tokenCounter" /\ value
                 THEN schedule(timers, "counter", clock) ELSE timers
    /\ styling' = IF feature = "responseStyling" THEN [enabled |-> value] ELSE styling
    /\ enabled' = on
    /\ selectionMode' = IF feature = "contextCollector" /\ ~value
                        THEN exitSelectionMode.selectionMode ELSE selectionMode
    /\ selectedTurns' = IF feature = "contextCollector" /\ ~value
                        THEN exitSelectionMode.selectedTurns ELSE selectedTurns
    /\ lastClickedIndex' = IF feature = "contextCollector" /\ ~value
                           THEN exitSelectionMode.lastClickedIndex ELSE lastClickedIndex
    /\ sound' = IF feature # "soundNotification" THEN sound
                ELSE IF value THEN soundEnable(sound) ELSE soundDisable(sound)
    /\ lastOp' = Idle("message")
    /\ UNCHANGED <<turns, viewHeight, scrollHeight, scrollTop, lastAnchor, allTurns,
                   currentFormat, currentDelimiter, call,
                   clock, lastJumpTime, storage, requests, freeJumps, session, settings>>

\* The popup's toggle of a feature changes: saveSetting() stores the new
\* value, which the browser reports to the content script as a storage
\* change, and notifyContentScripts() sends SETTINGS_CHANGED.  The toggle
\* shows the stored value, so the new one is its opposite.
Toggle(feature) ==
  /\ ~popup.event /\ ~popup.message
  /\ popup' = [feature |-> feature, enabled |-> ~settings[feature], event |-> TRUE,
               message |-> TRUE, first |-> "none"]
  /\ lastOp' = Idle("toggle")
  /\ UNCHANGED <<navVars, ccVars, call,
                 clock, lastJumpTime, navigator, timers, storage, requests, freeJumps,
                 session, counter, styling, settings, tracker, sound>>

\* The content script processes the storage change of the toggle.
StorageEvent ==
  /\ popup.event
  /\ SettingsApplied([settings EXCEPT ![popup.feature] = popup.enabled])
  /\ popup' = [popup EXCEPT !.event = FALSE,
                            !.first = IF @ = "none" THEN "event" ELSE @]

\* The content script processes the SETTINGS_CHANGED message of the toggle.
MessageDelivered ==
  /\ popup.message
  /\ SettingsMessage(popup.feature, popup.enabled)
  /\ popup' = [popup EXCEPT !.message = FALSE,
                            !.first = IF @ = "none" THEN "message" ELSE @]

\* What chrome.storage.sync holds of the settings: currentSettings, and
\* the toggled value while its storage change is under way.
StoredSettings ==
  IF popup.event THEN [settings EXCEPT ![popup.feature] = popup.enabled] ELSE settings

\* The page has loaded with any stored settings (the collector on).
PopupInit == \E st \in [FEATURE_KEYS -> BOOLEAN] : st.contextCollector /\ Loaded(st)

PopupNext ==
  \/ \E feature \in FEATURE_KEYS : Toggle(feature)
  \/ StorageEvent
  \/ MessageDelivered

SpecPopup == PopupInit /\ [][PopupNext]_vars

\* ------------------------------------------------ the counter is closed
\* The conversations that the page shows when the content script starts.
CountedPages == {<<>>, <<PageElement(1)>>}

\* initializeAllFeatures() with the stored tokenCounter setting, and the
\* update that TokenCounter.init() schedules has run: the counter shows the
\* totals of the conversation, or '~0' on an empty one.
CounterInit ==
  \E on \in BOOLEAN :
    /\ PageLoaded(CountedPages, PageViews)
    /\ clock = LoadTime
    /\ lastJumpTime = 0
    /\ settings = [AllOn EXCEPT !.tokenCounter = on]
    /\ navigator = [enabled |-> TRUE, started |-> TRUE, widget |-> "shown"]
    /\ timers = NoTimers
    /\ storage = [usageCount |-> 0, licensed |-> TRUE]
    /\ requests = <<>>
    /\ freeJumps = 0
    /\ session = NoSession
    /\ counter = IF on THEN updateCounter(NoCounter, turns, NoSession.url)
                 ELSE counterDisable(NoCounter)
    /\ styling = NoStyling
    /\ popup = NoPopup
    /\ tracker = NoTracker
    /\ sound = NoSound

\* The first turn comes and goes, time passes, the timers fire, the user
\* closes the counter, and the storage reports changes of the tokenCounter
\* setting and of the chime.
CounterNext ==
  \/ Tick
  \/ ObservedMutation(1)
  \/ \E loop \in Loops : TimerExpiry(loop)
  \/ Dismiss
  \/ \E on \in BOOLEAN : SettingsChanged("tokenCounter", on)
  \/ ChimeChanged

SpecCounter == CounterInit /\ [][CounterNext]_vars

\* ---------------------------------------------- the fallback rescan
\* The 2 s interval that PromptNavigator.init() sets: scan(), updateStatus().
IntervalRescan == navigator.started /\ Rescan

FallbackInit == \E on \in BOOLEAN : Loaded([AllOn EXCEPT !.promptNavigator = on])

\* The page changes and no observer is notified; the setting is switched.
FallbackNext ==
  \/ \E i \in 1..MaxTurns : AttachTurn(i)
  \/ \E k \in 1..Len(turns) : DetachTurn(k)
  \/ IntervalRescan
  \/ \E on \in BOOLEAN : SettingsChanged("promptNavigator", on)

SpecFallback == FallbackInit /\ [][FallbackNext]_vars /\ WF_vars(IntervalRescan)

\* ------------------------------------------------ keys and messages
\* Alt+E or Alt+D outside an input field, or a PROMPT_JUMP message: the
\* listeners that setupInputHandler() adds, which init() alone calls, call
\* handleJump(direction) while the navigator is enabled.
JumpInput(direction) ==
  IF navigator.started /\ navigator.enabled
  THEN HandleJump(direction)
  ELSE /\ lastOp' = [Idle("input") EXCEPT !.direction = direction]
       /\ UNCHANGED <<navVars, ccVars, call, bgVars>>

InputInit == \E on \in BOOLEAN : Loaded([AllOn EXCEPT !.promptNavigator = on])

InputNext ==
  \/ \E direction \in {"previous", "next"} : JumpInput(direction)
  \/ \E on \in BOOLEAN : SettingsChanged("promptNavigator", on)
  \/ \E i \in 1..MaxTurns : AttachTurn(i)
  \/ \E k \in 1..Len(turns) : DetachTurn(k)
  \/ \E s \in ScrollStops : UserScroll(s)

SpecInput == InputInit /\ [][InputNext]_vars

\* ------------------------------------------- the session tracker's row
TrackerInit ==
  \E nav \in BOOLEAN, tr \in BOOLEAN :
     Loaded([AllOn EXCEPT !.promptNavigator = nav, !.sessionTracker = tr])

TrackerNext ==
  \/ \E key \in {"promptNavigator", "sessionTracker"}, on \in BOOLEAN : SettingsChanged(key, on)
  \/ \E on \in BOOLEAN : MessagePromptNavigator(on)
  \/ MessageSessionTracker
  \/ PageRemovesWidget
  \/ AttachRetry

SpecTracker == TrackerInit /\ [][TrackerNext]_vars

\* ------------------------------------------------ the completion chime
\* checkGenerationState(): nothing while disabled or within 500 ms of the
\* last check; else the sound is played when generation had been seen and
\* is over, and isGenerating takes the page's state.
checkGenerationState(sn, now) ==
  IF ~sn.enabled \/ now - sn.lastCheckTime < CHECK_THROTTLE_MS
  THEN [sn EXCEPT !.chime = FALSE]
  ELSE [sn EXCEPT !.lastCheckTime = now,
                  !.chime = sn.isGenerating /\ ~sn.generating,
                  !.isGenerating = sn.generating,
                  !.witnessed = @ \/ sn.generating]

\* The page starts (the stop button appears) or ends (it disappears) the
\* generation of a response; the observer, connected while the feature is
\* enabled, calls checkGenerationState().
PageGeneration(starts) ==
  /\ sound.generating # starts
  /\ sound' = checkGenerationState(
                [sound EXCEPT !.generating = starts,
                              !.witnessed = IF starts THEN FALSE ELSE @,
                              !.missed = ~starts /\ ~sound.enabled],
                clock)
  /\ lastOp' = Idle("mutation")
  /\ UNCHANGED <<navVars, ccVars, call,
                 clock, lastJumpTime, navigator, timers, storage, requests, freeJumps, session, styling, popup, counter, settings, tracker>>

\* The 1 s interval that setupObserver() sets.
CheckGenerationState ==
  /\ sound' = checkGenerationState(sound, clock)
  /\ lastOp' = Idle("check")
  /\ UNCHANGED <<navVars, ccVars, call,
                 clock, lastJumpTime, navigator, timers, storage, requests, freeJumps, session, styling, popup, counter, settings, tracker>>

SoundInit == \E on \in BOOLEAN : Loaded([AllOn EXCEPT !.soundNotification = on])

SoundNext ==
  \/ Tick
  \/ \E starts \in BOOLEAN : PageGeneration(starts)
  \/ CheckGenerationState
  \/ \E on \in BOOLEAN : SettingsChanged("soundNotification", on)

SpecSound == SoundInit /\ [][SoundNext]_vars

\* ------------------------------------------------ the session tracker
\* getCurrentPromptCount(): the visible turns that determineMessageRole,
\* given the turn's index among all turns, takes for the user's.
getCurrentPromptCount(ts) ==
  Cardinality({i \in 1..Len(ts) :
                 isElementVisible(ts[i]) /\ determineMessageRole(ts[i], i - 1) = "user"})

\* The turns of a conversation of n prompts, each with its response.
Conversation(n) ==
  [i \in 1..(2 * n) |->
     MkTurn(i, IF i % 2 = 1 THEN SigUser ELSE SigAssistant,
            [top |-> 60 * (i - 1), height |-> 50, hidden |-> FALSE])]

\* saveSessionData(): the three values go to localStorage under the key of
\* the conversation of the address.
saveSessionData(ss) ==
  [ss EXCEPT !.saved[ss.url] = [sessionStartTime |-> ss.sessionStartTime,
                                lastPromptTime |-> ss.lastPromptTime,
                                lastPromptCount |-> ss.lastPromptCount]]

\* initSession(): the saved times of the conversation of the address, or
\* none; lastPromptCount is the count of the page as it is; then
\* saveSessionData().
initSession(ss, ts) ==
  saveSessionData(
    IF ss.saved[ss.url] # NoData
    THEN [ss EXCEPT !.sessionStartTime = ss.saved[ss.url].sessionStartTime,
                    !.lastPromptTime = ss.saved[ss.url].lastPromptTime,
                    !.lastPromptCount = getCurrentPromptCount(ts), !.sent = "none"]
    ELSE [ss EXCEPT !.sessionStartTime = NoTime, !.lastPromptTime = NoTime,
                    !.lastPromptCount = getCurrentPromptCount(ts), !.sent = "none"])

\* checkForNewPrompts(): when the page counts more prompts than
\* lastPromptCount, sessionStartTime becomes now if there is none and the
\* count is 1, lastPromptTime becomes now if the count is 2 or more, the
\* count is taken, and saveSessionData().
checkForNewPrompts(ss, ts, time) ==
  LET currentCount == getCurrentPromptCount(ts)
      now == [time |-> time, conv |-> ss.url, witnessed |-> ss.sent = ss.url]
  IN IF currentCount > ss.lastPromptCount
     THEN saveSessionData(
            [ss EXCEPT !.sessionStartTime =
                         IF @ = NoTime /\ currentCount = 1 THEN now ELSE @,
                       !.lastPromptTime = IF currentCount >= 2 THEN now ELSE @,
                       !.lastPromptCount = currentCount,
                       !.sent = "none"])
     ELSE ss

\* The tracker's steps change the session and, when the page renders, turns.
Tracked(op) ==
  /\ lastOp' = Idle(op)
  /\ UNCHANGED <<viewHeight, scrollHeight, scrollTop, prompts, lastAnchor, ccVars, call,
                 clock, lastJumpTime, navigator, timers, storage, requests, freeJumps,
                 counter, styling, popup, settings, tracker, sound>>

\* The user opens another conversation: the address changes at once, the
\* page renders the conversation later.
Navigate(conv) ==
  /\ conv # session.url
  /\ session' = [session EXCEPT !.url = conv]
  /\ UNCHANGED turns
  /\ Tracked("navigate")

\* The page renders the conversation of the address; the observer on main
\* sets its 500 ms timer anew.
Render ==
  /\ turns # Conversation(session.prompts[session.url])
  /\ turns' = Conversation(session.prompts[session.url])
  /\ session' = [session EXCEPT !.debounce = TRUE]
  /\ Tracked("mutation")

\* The user sends a prompt in the conversation on the page; prompt and
\* response are rendered, and the observer sets its timer anew.
SendPrompt ==
  /\ turns = Conversation(session.prompts[session.url])
  /\ session.prompts[session.url] < MaxPrompts
  /\ turns' = Conversation(session.prompts[session.url] + 1)
  /\ session' = [session EXCEPT !.prompts[session.url] = @ + 1,
                                !.sent = session.url, !.debounce = TRUE]
  /\ Tracked("mutation")

\* The observer's timer fires: checkForNewPrompts().
CheckForNewPrompts ==
  /\ session.debounce
  /\ session' = checkForNewPrompts([session EXCEPT !.debounce = FALSE], turns, clock)
  /\ UNCHANGED turns
  /\ Tracked("check")

\* The 1 s interval of setupPromptTracking finds another address:
\* initSession().
UrlPoll ==
  /\ session.url # session.lastUrl
  /\ session' = initSession([session EXCEPT !.lastUrl = session.url], turns)
  /\ UNCHANGED turns
  /\ Tracked("poll")

\* The tracker has started on conversation "a", which is empty or has a
\* prompt; conversation "b" has prompts that were sent before.
SessionInit ==
  /\ \E a \in 0..1, b \in 0..MaxPrompts :
       /\ PageLoaded({Conversation(a)}, PageViews)
       /\ session = [NoSession EXCEPT !.prompts = [c \in Conversations |->
                                                     IF c = "a" THEN a ELSE b],
                                      !.lastPromptCount = a,
                                      !.saved["a"].lastPromptCount = a]
  /\ clock = LoadTime
  /\ lastJumpTime = 0
  /\ navigator = [enabled |-> TRUE, started |-> TRUE, widget |-> "shown"]
  /\ timers = NoTimers
  /\ storage = [usageCount |-> 0, licensed |-> TRUE]
  /\ requests = <<>>
  /\ freeJumps = 0
  /\ counter = NoCounter
  /\ styling = NoStyling
  /\ popup = NoPopup
  /\ settings = AllOn
  /\ tracker = NoTracker
  /\ sound = NoSound

SessionNext ==
  \/ \E conv \in Conversations : Navigate(conv)
  \/ Render
  \/ SendPrompt
  \/ CheckForNewPrompts
  \/ UrlPoll

SpecSession == SessionInit /\ [][SessionNext]_vars

\* ------------------------------------------------ the license check
NoKey == "<null>"    \* no promptNavLicenseKey in the storage

\* isLicenseValid() that asks for a validation when the last one is exactly
\* 24 hours old.
isLicenseValidStrict(st, now) ==
  [isValid |-> st.licenseValid,
   needsRevalidation |-> now - st.lastValidated >= REVALIDATE_AFTER]

\* isLicenseValid(): the cached result, and whether it is older than 24
\* hours (Date.now() - lastValidated > 86400000).
isLicenseValid(st, now) ==
  [isValid |-> st.licenseValid,
   needsRevalidation |-> now - st.lastValidated > REVALIDATE_AFTER]

\* validateLicenseWithPolar(key): false without a request for an empty key;
\* else one request, true when the answer is 'granted' (an error, a
\* response that is not ok and any other status give false).
validateLicenseWithPolar(key, answer) ==
  IF key = NoKey \/ key = "" THEN [valid |-> FALSE, requests |-> 0]
  ELSE [valid |-> answer = "granted", requests |-> 1]

\* checkAndValidateLicense() on the storage st at the time now, the remote
\* service answering with answer: what it returns, the requests it sent to
\* the service, and the storage it leaves.
checkAndValidateLicense(st, now, answer) ==
  LET cached == isLicenseValid(st, now)
      remote == validateLicenseWithPolar(st.licenseKey, answer)
  IN IF st.licenseKey = NoKey \/ st.licenseKey = ""
     THEN [returned |-> FALSE, requests |-> 0, storage |-> st]
     ELSE IF cached.isValid /\ ~cached.needsRevalidation
     THEN [returned |-> TRUE, requests |-> 0, storage |-> st]
     ELSE [returned |-> remote.valid, requests |-> remote.requests,
           storage |-> [st EXCEPT !.licenseValid = remote.valid, !.lastValidated = now]]

\* The stored license: no key, an empty key or a key; a cached result; the
\* time of the last validation (0: never).  The service grants the key,
\* revokes it, or cannot be reached.
ValidationInit ==
  PureInit({[fn |-> "checkAndValidateLicense",
             st |-> [licenseKey |-> key, licenseValid |-> valid, lastValidated |-> last],
             now |-> MaxHours, answer |-> answer, done |-> FALSE,
             result |-> [returned |-> FALSE, requests |-> 0,
                         storage |-> [licenseKey |-> key, licenseValid |-> valid,
                                      lastValidated |-> last]]] :
               key \in {NoKey, "", "key"}, valid \in BOOLEAN, last \in 0..MaxHours,
               answer \in {"granted", "revoked", "error"}})

CallCheckAndValidateLicense ==
  /\ call.fn = "checkAndValidateLicense"
  /\ Return(checkAndValidateLicense(call.st, call.now, call.answer))

SpecValidation == ValidationInit /\ [][CallCheckAndValidateLicense]_vars

\* ---------------------------------------------------- the free tier
\* LicenseManager.canUseNavigation(), its reads of the storage taken
\* together.
canUseNavigation(st) ==
  IF st.licensed THEN [allowed |-> TRUE, reason |-> "licensed"]
  ELSE IF st.usageCount < FREE_NAVIGATIONS THEN [allowed |-> TRUE, reason |-> "free_tier"]
  ELSE [allowed |-> FALSE, reason |-> "limit_reached"]

Remove(seq, i) == SubSeq(seq, 1, i - 1) \o SubSeq(seq, i + 1, Len(seq))

\* A key or a button of the widget: handleJump(direction) starts and waits
\* for canUseNavigation().
JumpRequested(direction) ==
  /\ Len(requests) < MaxRequests
  /\ requests' = Append(requests, [direction |-> direction, pc |-> "access", count |-> 0])
  /\ lastOp' = Idle("request")
  /\ UNCHANGED <<navVars, ccVars, call, clock, lastJumpTime, navigator, timers,
                 storage, freeJumps, session, styling, popup, counter, settings, tracker, sound>>

\* canUseNavigation() resolves for the call i.  Refused: the upgrade modal,
\* 'Limit reached', return.  Allowed: scan() and jump(); after a successful
\* jump on the free tier the call goes on to incrementUsage(), which asks
\* the storage for the count.
AccessResolved(i) ==
  /\ requests[i].pc = "access"
  /\ \E access \in {canUseNavigation(storage)} :
       IF ~access.allowed
       THEN /\ lastOp' = Idle("refused")
            /\ requests' = Remove(requests, i)
            /\ UNCHANGED <<navVars, ccVars, call, clock, lastJumpTime, navigator, timers,
                           freeJumps, session, styling, popup, counter, settings, tracker, sound>>
       ELSE /\ ScanAndJump(requests[i].direction)
            /\ IF lastOp'.result.success /\ access.reason = "free_tier"
               THEN /\ requests' = [requests EXCEPT ![i].pc = "count"]
                    /\ freeJumps' = freeJumps + 1
               ELSE /\ requests' = Remove(requests, i)
                    /\ freeJumps' = freeJumps
  /\ UNCHANGED <<storage, session, counter, styling, popup>>

\* incrementUsage(): getUsageCount() resolves with the stored count, and
\* the call asks the storage to set count + 1.
UsageCountRead(i) ==
  /\ requests[i].pc = "count"
  /\ requests' = [requests EXCEPT ![i].pc = "set", ![i].count = storage.usageCount]
  /\ lastOp' = Idle("storage")
  /\ UNCHANGED <<navVars, ccVars, call, clock, lastJumpTime, navigator, timers,
                 storage, freeJumps, session, styling, popup, counter, settings, tracker, sound>>

\* incrementUsage(): the storage takes count + 1 and handleJump returns.
\* The storage's change event runs the settings callback, which enables
\* what is enabled: PromptNavigator.enable() scans and TokenCounter.enable()
\* calls scheduleUpdate().  Whether the event is sent for a value that is
\* the stored one depends on the browser.
UsageCountSet(i) ==
  /\ requests[i].pc = "set"
  /\ storage' = [storage EXCEPT !.usageCount = requests[i].count + 1]
  /\ requests' = Remove(requests, i)
  /\ \E event \in (IF storage.usageCount = requests[i].count + 1 THEN BOOLEAN ELSE {TRUE}) :
       IF event
       THEN /\ prompts' = scan(turns)
            /\ timers' = schedule(timers, "counter", clock)
            /\ counter' = counterEnable(counter)
       ELSE UNCHANGED <<prompts, timers, counter>>
  /\ lastOp' = Idle("storage")
  /\ UNCHANGED <<turns, viewHeight, scrollHeight, scrollTop, lastAnchor, ccVars, call,
                 clock, lastJumpTime, navigator, freeJumps, session, styling, popup, settings, tracker, sound>>

\* Conversations of two turns, a prompt at the top and a prompt or a
\* response low in the content.
LicensePages ==
  {p \in Pages(2) : p[1].nestedRole = "user" /\ p[1].top = 0 /\ p[2].top = 120}

\* A user without a license who has jumped up to FREE_NAVIGATIONS times,
\* each jump counted, or a user with a license.
LicenseInit ==
  /\ PageLoaded(LicensePages, PageViews)
  /\ clock = LoadTime
  /\ lastJumpTime = 0
  /\ navigator = [enabled |-> TRUE, started |-> TRUE, widget |-> "shown"]
  /\ timers = NoTimers
  /\ \E licensed \in BOOLEAN :
     \E used \in (IF licensed THEN {0} ELSE (FREE_NAVIGATIONS - MaxFree)..FREE_NAVIGATIONS) :
       /\ storage = [usageCount |-> used, licensed |-> licensed]
       /\ freeJumps = used
  /\ session = NoSession
  /\ counter = NoCounter
  /\ styling = NoStyling
  /\ popup = NoPopup
  /\ requests = <<>>
  /\ settings = AllOn
  /\ tracker = NoTracker
  /\ sound = NoSound

LicenseNext ==
  \/ \E direction \in {"previous", "next"} : JumpRequested(direction)
  \/ \E i \in 1..Len(requests) : AccessResolved(i)
  \/ \E i \in 1..Len(requests) : UsageCountRead(i)
  \/ \E i \in 1..Len(requests) : UsageCountSet(i)
  \/ \E s \in ScrollStops : UserScroll(s)

SpecLicense == LicenseInit /\ [][LicenseNext]_vars

\* ------------------------------------------------ jumps as time passes
\* A licensed user jumps and scrolls while the clock runs.
RapidInit == NavInit(LicensePages, PageViews)

RapidNext ==
  \/ Tick
  \/ \E direction \in {"previous", "next"} : HandleJump(direction)
  \/ \E s \in ScrollStops : UserScroll(s)

SpecRapid == RapidInit /\ [][RapidNext]_vars

\* ===================================================== the claims
\* The last handler was a jump; it succeeded.
Jumped == lastOp.op = "jump"

Succeeded == Jumped /\ lastOp.result.success

\* The anchors of the current targets (the page has not changed since they
\* were scanned), and the largest scroll offset.
Anchors == buildAnchors(prompts, getScrollContext)

maxScroll == scrollHeight - viewHeight

IsSorted(a) == \A i, j \in 1..Len(a) : i < j => a[i].y <= a[j].y

\* C1.  Directional guarantee: a successful jump made with no usable
\* recorded anchor (none, or one that is not in the rebuilt list) from an
\* offset S in 0..maxScroll scrolls to an offset > S for 'next' and < S for
\* 'previous'.
C1_DirectionalGuarantee ==
  (Succeeded /\ lastOp.currentIndex = 0 /\ lastOp.from <= maxScroll) =>
    /\ lastOp.direction = "next" => lastOp.applied > lastOp.from
    /\ lastOp.direction = "previous" => lastOp.applied < lastOp.from

\* C2.  Sequential guarantee: a jump('next') made from a recorded anchor
\* that is in the list moves the recorded anchor one position forward,
\* unless the recorded anchor is the chat-bottom (end) anchor: then it
\* fails with no_target.
C2_SequentialGuarantee ==
  (Jumped /\ lastOp.direction = "next" /\ lastOp.currentIndex >= 1) =>
    IF lastOp.prior.kind = "chat-bottom"
    THEN ~lastOp.result.success /\ lastOp.result.reason = "no_target"
    ELSE /\ lastOp.result.success
         /\ findIndex(Anchors, lastAnchor) = lastOp.currentIndex + 1

\* C3.  Anchor ordering: buildAnchors returns its anchors in ascending order
\* of y, and the last of them is the chat-bottom (end) anchor.
C3_AnchorOrdering ==
  /\ IsSorted(Anchors)
  /\ Anchors[Len(Anchors)].kind = "chat-bottom"

\* C4 as stated.  The offset a successful jump applies lies in 0..maxScroll.
C4_AppliedWithinMaxScroll ==
  Succeeded => 0 <= lastOp.applied /\ lastOp.applied <= maxScroll

\* C4 as amended.  The offset a successful jump applies, which is the scroll
\* offset it leaves, lies in 0..max(0, maxScroll): it is 0 when the content
\* is shorter than the viewport.
C4_AppliedWithinClamp ==
  Succeeded =>
    /\ scrollTop = lastOp.applied
    /\ 0 <= lastOp.applied /\ lastOp.applied <= Max(0, maxScroll)

\* A jump whose anchor's scroll position lay beyond maxScroll, and one on a
\* page shorter than the viewport: both were clamped.
C4_Witness ==
  /\ Succeeded
  /\ getTargetScroll(lastOp.target, getScrollContext) > Max(0, maxScroll)
  /\ lastOp.applied = Max(0, maxScroll)

\* The scenario page: three visible turns classified user, assistant, user.
ScenarioPage ==
  /\ Len(turns) = 3
  /\ \A i \in 1..3 : isElementVisible(turns[i])
  /\ determineMessageRole(turns[1], 0) = "user"
  /\ determineMessageRole(turns[2], 1) = "assistant"
  /\ determineMessageRole(turns[3], 2) = "user"

\* The first jump of the scenario: from the top of the page, nothing recorded.
FirstNext ==
  /\ ScenarioPage /\ Jumped /\ lastOp.direction = "next"
  /\ lastOp.prior = NoAnchor /\ lastOp.from = 0

\* A jump('next') of the scenario made with turn 0's top anchor recorded.
SecondNext ==
  /\ ScenarioPage /\ Jumped /\ lastOp.direction = "next"
  /\ lastOp.prior = [element |-> turns[1].id, kind |-> "top"]

IsAnchorOf(a, turn, kind) == a.element = turn.id /\ a.kind = kind

Below(S) == {i \in 1..Len(Anchors) :
               getTargetScroll(Anchors[i], getScrollContext) > S + tolerance}

VisibleTurns == {i \in 1..Len(turns) : isElementVisible(turns[i])}

VisibleUsers == {i \in VisibleTurns : determineMessageRole(turns[i], i - 1) = "user"}

\* The page has not changed since the targets were scanned.
Scanned == lastOp.op \in {"init", "scan", "jump"}

\* C6.  After every scan the target list holds visible turns only, in
\* document order and without repetition; when a visible turn is classified
\* user the targets are exactly the visible user turns, and when none is
\* they are all the visible turns.
C6_ScanTargets ==
  Scanned =>
    /\ \A k \in 1..Len(prompts) : \E i \in VisibleTurns : turns[i].id = prompts[k]
    /\ \A k, l \in 1..Len(prompts) : k < l => prompts[k] < prompts[l]
    /\ Range(prompts) = {turns[i].id : i \in (IF VisibleUsers # {} THEN VisibleUsers
                                                                   ELSE VisibleTurns)}

\* A scan that fell back to all visible turns, on a page that also holds a
\* hidden turn; and so none of its targets is a user turn.
C6_Witness ==
  /\ lastOp.op = "scan"
  /\ VisibleUsers = {} /\ VisibleTurns # {}
  /\ Cardinality(VisibleTurns) < Len(turns)
  /\ Len(prompts) = Cardinality(VisibleTurns)

\* The last jump started from a recorded anchor that was not in the rebuilt
\* anchors.
Stale == Jumped /\ lastOp.prior # NoAnchor /\ lastOp.currentIndex = 0

\* C7.  A jump started from a recorded anchor that is not in the rebuilt
\* anchors chooses, returns and scrolls exactly what a jump with no recorded
\* anchor does from the same offset: it fails only when no anchor lies in
\* the direction by scroll position.
C7_StaleAnchorFallback ==
  Stale =>
    \E fresh \in {jump(prompts, [getScrollContext EXCEPT !.scrollTop = lastOp.from],
                       lastOp.direction, NoAnchor)} :
       /\ lastOp.target = fresh.target
       /\ lastOp.result = fresh.result
       /\ lastOp.applied = fresh.applied

\* A jump from a recorded anchor whose element is gone, which succeeded.
C7_Witness ==
  /\ Stale /\ lastOp.result.success
  /\ lastOp.prior.element \notin {t.id : t \in Range(turns)}

\* No anchor lies in the direction of the last jump: by scroll position
\* when no recorded anchor was found in the list, by place in the list
\* otherwise.
NoneInDirection ==
  LET context == [getScrollContext EXCEPT !.scrollTop = lastOp.from]
      position(i) == getTargetScroll(Anchors[i], context)
  IN IF lastOp.currentIndex = 0
     THEN IF lastOp.direction = "next"
          THEN \A i \in 1..Len(Anchors) : position(i) <= lastOp.from + tolerance
          ELSE \A i \in 1..Len(Anchors) : position(i) >= lastOp.from - tolerance
     ELSE IF lastOp.direction = "next"
          THEN lastOp.currentIndex = Len(Anchors)
          ELSE lastOp.currentIndex = 1

\* C8.  jump fails with no_prompts (the specification's no_turns) when the
\* target list is empty, with no_target when there are targets and no
\* anchor in the requested direction, and succeeds in every other case.
C8_JumpResult ==
  Jumped =>
    IF Len(prompts) = 0
    THEN ~lastOp.result.success /\ lastOp.result.reason = "no_prompts"
    ELSE IF NoneInDirection
    THEN ~lastOp.result.success /\ lastOp.result.reason = "no_target"
    ELSE lastOp.result.success

\* jump has returned each of the three: no_prompts here.
C8_Witness ==
  /\ Jumped /\ Len(turns) > 0 /\ Len(prompts) = 0
  /\ lastOp.result.reason = "no_prompts"

\* C9 as stated.  A successful jump reports the index of an existing
\* target, 0 <= promptIndex < total, the one its anchor was derived from.
C9_ReportedPosition ==
  Succeeded =>
    /\ lastOp.result.total = Len(prompts)
    /\ 0 <= lastOp.result.promptIndex
    /\ lastOp.result.promptIndex < lastOp.result.total
    /\ prompts[lastOp.result.promptIndex + 1] = lastOp.target.element

\* C9 as amended.  A successful jump reports total, the number of targets,
\* and for a top or bottom anchor the index (0 <= promptIndex < total) of
\* the target the anchor was derived from; for the chat-bottom (end) anchor
\* it reports promptIndex = total, the index of no target.
C9_ReportedPositionOrEnd ==
  Succeeded =>
    /\ lastOp.result.total = Len(prompts)
    /\ IF lastOp.target.kind = "chat-bottom"
       THEN lastOp.result.promptIndex = lastOp.result.total
       ELSE /\ 0 <= lastOp.result.promptIndex
            /\ lastOp.result.promptIndex < lastOp.result.total
            /\ prompts[lastOp.result.promptIndex + 1] = lastOp.target.element

\* A jump to the second target's bottom anchor, and so reporting index 1.
C9_Witness ==
  /\ Succeeded
  /\ lastOp.target.kind = "bottom"
  /\ lastOp.result.promptIndex = 1

\* The indices (from 0, in allTurns) of the turns that are selected.
SelectedIndices == {i \in 0..(Len(allTurns) - 1) : Has(selectedTurns, allTurns[i + 1])}

\* A set of turns of allTurns as entries, in ascending index.
InIndexOrder(S) ==
  LET a == Ascending(S)
  IN [k \in 1..Len(a) |-> [role |-> determineMessageRole(allTurns[a[k] + 1], a[k]),
                           text |-> extractTurnText(allTurns[a[k] + 1])]]

\* C10.  Export order-independence: whatever the order in which the turns
\* were selected (clicks, shift ranges, bulk selections), the output in each
\* of the three formats, and the text a copy hands to the clipboard, is the
\* serialization of the set of selected turns in ascending turn index.
C10_ExportOrderIndependence ==
  /\ \A format \in Formats :
       formatOutputAs(format)
         = Serialize(InIndexOrder(SelectedIndices), format, getDelimiterValue)
  /\ lastOp.op \in {"copy", "copy-refused"} =>
       lastOp.output
         = Serialize(InIndexOrder(SelectedIndices), lastOp.format, getDelimiterValue)

\* Three turns selected in the click order 3, 1, 2 and then copied.
C10_Witness ==
  /\ lastOp.op = "copy"
  /\ Len(selectedTurns) = 3
  /\ selectedTurns[1].index = 2 /\ selectedTurns[2].index = 0 /\ selectedTurns[3].index = 1

\* ------------------------------------------- JSON, character by character
\* The characters JSON.stringify writes for a character of a string.
JsonEscapeNothing(c) == <<c>>

JsonEscape(c) ==
  IF c = "\"" THEN <<"\\", "\"">>
  ELSE IF c = "\\" THEN <<"\\", "\\">>
  ELSE IF c = "\n" THEN <<"\\", "n">>
  ELSE IF c = "\t" THEN <<"\\", "t">>
  ELSE <<c>>

RECURSIVE Concat(_)
Concat(seqs) == IF seqs = <<>> THEN <<>> ELSE seqs[1] \o Concat(Tail(seqs))

\* The characters of the role words.
RoleChars(role) ==
  IF role = "user" THEN <<"u", "s", "e", "r">>
  ELSE IF role = "assistant" THEN <<"a", "s", "s", "i", "s", "t", "a", "n", "t">>
  ELSE IF role = "system" THEN <<"s", "y", "s", "t", "e", "m">>
  ELSE IF role = "tool" THEN <<"t", "o", "o", "l">>
  ELSE <<"?">>

JsonStringChars(chars) ==
  <<"\"">> \o Concat([k \in 1..Len(chars) |-> JsonEscape(chars[k])]) \o <<"\"">>

\* JSON.stringify(messages, null, 2), as characters.
JsonMessageChars(data) ==
  <<" ", " ", "{", "\n", " ", " ", " ", " ">>
  \o <<"\"", "r", "o", "l", "e", "\"", ":", " ">> \o JsonStringChars(RoleChars(data.role))
  \o <<",", "\n", " ", " ", " ", " ">>
  \o <<"\"", "c", "o", "n", "t", "e", "n", "t", "\"", ":", " ">> \o JsonStringChars(data.text)
  \o <<"\n", " ", " ", "}">>

RECURSIVE JsonMessagesChars(_)
JsonMessagesChars(entries) ==
  IF entries = <<>> THEN <<>>
  ELSE JsonMessageChars(entries[1])
       \o (IF Len(entries) = 1 THEN <<>> ELSE <<",", "\n">>)
       \o JsonMessagesChars(Tail(entries))

JsonStringify(entries) ==
  IF entries = <<>> THEN <<"[", "]">>
  ELSE <<"[", "\n">> \o JsonMessagesChars(entries) \o <<"\n", "]">>

\* JSON.parse of a list of {role, content} objects.  A reading step gives
\* ok (the text was well formed so far), what was read, and the position of
\* the next character.
Malformed(i) == [ok |-> FALSE, value |-> <<>>, next |-> i]

\* The characters of a string whose opening quote comes before position i.
RECURSIVE ReadString(_, _)
ReadString(chars, i) ==
  IF i > Len(chars) THEN Malformed(i)
  ELSE IF chars[i] = "\"" THEN [ok |-> TRUE, value |-> <<>>, next |-> i + 1]
  ELSE IF chars[i] \in {"\n", "\t"} THEN Malformed(i)
  ELSE IF chars[i] = "\\"
  THEN IF i + 1 > Len(chars) \/ chars[i + 1] \notin {"n", "t", "\"", "\\", "/"}
       THEN Malformed(i)
       ELSE LET c == chars[i + 1]
                r == ReadString(chars, i + 2)
            IN [r EXCEPT !.value = <<IF c = "n" THEN "\n" ELSE IF c = "t" THEN "\t" ELSE c>>
                                   \o r.value]
  ELSE LET r == ReadString(chars, i + 1)
       IN [r EXCEPT !.value = <<chars[i]>> \o r.value]

RECURSIVE SkipSpace(_, _)
SkipSpace(chars, i) ==
  IF i <= Len(chars) /\ IsSpace(chars[i]) THEN SkipSpace(chars, i + 1) ELSE i

\* The character c stands at the first position from i that holds no space.
At(chars, i, c) == SkipSpace(chars, i) <= Len(chars) /\ chars[SkipSpace(chars, i)] = c

\* "key": "value"
ReadMember(chars, i, key) ==
  IF ~At(chars, i, "\"") THEN Malformed(i)
  ELSE LET k == ReadString(chars, SkipSpace(chars, i) + 1)
       IN IF ~k.ok \/ k.value # key \/ ~At(chars, k.next, ":")
             \/ ~At(chars, SkipSpace(chars, k.next) + 1, "\"")
          THEN Malformed(i)
          ELSE ReadString(chars, SkipSpace(chars, SkipSpace(chars, k.next) + 1) + 1)

\* { "role": ..., "content": ... }
ReadObject(chars, i) ==
  IF ~At(chars, i, "{") THEN Malformed(i)
  ELSE LET role == ReadMember(chars, SkipSpace(chars, i) + 1, <<"r", "o", "l", "e">>)
       IN IF ~role.ok \/ ~At(chars, role.next, ",") THEN Malformed(i)
          ELSE LET content == ReadMember(chars, SkipSpace(chars, role.next) + 1,
                                         <<"c", "o", "n", "t", "e", "n", "t">>)
               IN IF ~content.ok \/ ~At(chars, content.next, "}") THEN Malformed(i)
                  ELSE [ok |-> TRUE,
                        value |-> <<[role |-> role.value, content |-> content.value]>>,
                        next |-> SkipSpace(chars, content.next) + 1]

\* object , object ... ]
RECURSIVE ReadObjects(_, _)
ReadObjects(chars, i) ==
  LET first == ReadObject(chars, i)
  IN IF ~first.ok THEN Malformed(i)
     ELSE IF At(chars, first.next, "]")
     THEN [first EXCEPT !.next = SkipSpace(chars, first.next) + 1]
     ELSE IF At(chars, first.next, ",")
     THEN LET rest == ReadObjects(chars, SkipSpace(chars, first.next) + 1)
          IN [rest EXCEPT !.value = first.value \o rest.value]
     ELSE Malformed(i)

\* JSON.parse(text): the list of records, or a SyntaxError (ok = FALSE).
JsonParse(chars) ==
  IF ~At(chars, 1, "[") THEN Malformed(1)
  ELSE LET i == SkipSpace(chars, 1) + 1
           list == IF At(chars, i, "]")
                   THEN [ok |-> TRUE, value |-> <<>>, next |-> SkipSpace(chars, i) + 1]
                   ELSE ReadObjects(chars, i)
       IN IF list.ok /\ SkipSpace(chars, list.next) > Len(chars) THEN list ELSE Malformed(1)

\* C11.  Round trip of the json format: the json output is the text
\* JSON.stringify writes for the selected entries in index order, and
\* JSON.parse of that text is a list with one record per selected turn, in
\* turn order, whose role and content are the role and the text captured
\* for the turn.
C11_JsonRoundTrip ==
  \E sorted \in {SortByIndex(selectedTurns)} :
  \E written \in {JsonStringify(sorted)} :
  \E parsed \in {JsonParse(written)} :
     /\ Flatten(written) = formatOutputAs("json")
     /\ parsed.ok
     /\ Len(parsed.value) = Len(sorted)
     /\ \A k \in 1..Len(sorted) :
          /\ parsed.value[k].role = RoleChars(sorted[k].role)
          /\ parsed.value[k].content = sorted[k].text
          /\ sorted[k].index \in SelectedIndices
          /\ k < Len(sorted) => sorted[k].index < sorted[k + 1].index

\* A copy in the json format of a selection whose texts hold a quotation
\* mark, a line break and a backslash.
C11_Witness ==
  /\ lastOp.op = "copy" /\ lastOp.format = "json"
  /\ \A c \in {"\"", "\n", "\\"} :
       \E k \in 1..Len(selectedTurns) : c \in Range(selectedTurns[k].text)

\* C12.  Empty selection, empty output: with nothing selected the output is
\* the empty string in each of the three formats, and no copy hands
\* anything to the clipboard.
C12_EmptySelectionEmptyOutput ==
  selectedTurns = <<>> =>
    /\ \A format \in Formats : formatOutputAs(format) = ""
    /\ lastOp.op \notin {"copy", "copy-refused"}

\* C13.  Every selected turn is a turn of the current scan, the list
\* scanTurns() stored on entering selection mode, at the index the entry
\* records; this holds while the page attaches and removes turns.
C13_SelectionWithinScan ==
  \A k \in 1..Len(selectedTurns) :
    /\ selectedTurns[k].index \in 0..(Len(allTurns) - 1)
    /\ allTurns[selectedTurns[k].index + 1].id = selectedTurns[k].turn

\* After the page has changed, selection mode was entered anew, a turn was
\* selected, and the page then removed that turn.
C13_Witness ==
  /\ selectionMode /\ lastOp.op = "mutation"
  /\ \E k \in 1..Len(selectedTurns) :
       selectedTurns[k].turn \notin {t.id : t \in Range(turns)}
  /\ Len(allTurns) < MaxTurns

\* C14.  While selection mode is off the selection is empty and the last
\* clicked index is -1: the close button, Escape, the floating button and
\* disabling the collector all leave it so.
C14_ClearedOutsideSelectionMode ==
  ~selectionMode => selectedTurns = <<>> /\ lastClickedIndex = -1

\* The collector was disabled after turns had been scanned.
C14_Witness ==
  /\ lastOp.op = "disable" /\ ~enabled /\ ~selectionMode
  /\ Len(allTurns) >= 2

\* determineMessageRole has returned role for the element el at index.
Classified == call.fn = "determineMessageRole" /\ call.done

\* C15.  The role of a turn is user or assistant, whatever its role
\* attribute, nested role attribute, test id, aria-label and index.
C15_RoleIsUserOrAssistant ==
  Classified => call.result \in {"user", "assistant"}

\* The signals of an element that are present.
HasOwnRole(el) == el.roleAttr # NoAttr /\ el.roleAttr # ""

HasNestedRole(el) == el.nestedRole # NoAttr

HasTestIdRole(el) == el.testId \cap {"user", "assistant", "model", "gpt"} # {}

HasAriaRole(el) == el.ariaLabel \cap {"you", "chatgpt", "assistant"} # {}

\* C16.  Role classification is first match wins: the own role attribute
\* (when it names a role), else the nested role attribute, else the test
\* id (user before assistant, model, gpt), else the aria-label (you before
\* chatgpt, assistant), else the index parity (even user, odd assistant);
\* the result does not depend on any signal below the first one present.
C16_FirstMatchWins ==
  Classified =>
    LET el == call.el
        silent == [roleAttr |-> NoAttr, nestedRole |-> NoAttr, testId |-> {}, ariaLabel |-> {}]
    IN IF HasOwnRole(el)
       THEN /\ call.result = el.roleAttr
            /\ \A i \in 0..MaxIndex :
                 call.result = determineMessageRole([silent EXCEPT !.roleAttr = el.roleAttr], i)
       ELSE IF HasNestedRole(el)
       THEN /\ call.result = el.nestedRole
            /\ \A i \in 0..MaxIndex :
                 call.result = determineMessageRole([silent EXCEPT !.nestedRole = el.nestedRole], i)
       ELSE IF HasTestIdRole(el)
       THEN /\ call.result = (IF "user" \in el.testId THEN "user" ELSE "assistant")
            /\ \A i \in 0..MaxIndex :
                 call.result = determineMessageRole([silent EXCEPT !.testId = el.testId], i)
       ELSE IF HasAriaRole(el)
       THEN /\ call.result = (IF "you" \in el.ariaLabel THEN "user" ELSE "assistant")
            /\ \A i \in 0..MaxIndex :
                 call.result = determineMessageRole([silent EXCEPT !.ariaLabel = el.ariaLabel], i)
       ELSE call.result = (IF call.index % 2 = 0 THEN "user" ELSE "assistant")

\* A test id that says assistant won over an aria-label that says you, at
\* an even index.
C16_Witness ==
  /\ Classified
  /\ ~HasOwnRole(call.el) /\ ~HasNestedRole(call.el)
  /\ call.el.testId = {"gpt"} /\ call.el.ariaLabel = {"you"} /\ call.index = 0
  /\ call.result = "assistant"

\* estimateTokensFromText has returned its estimate of call.text.
Estimated == call.fn = "estimateTokensFromText" /\ call.done

\* The text is empty or nothing but white space.
Blank(text) == \A i \in 1..Len(text) : IsSpace(text[i])

\* C17.  estimateTokensFromText gives at least one token to a text that is
\* not empty after white space is normalised, and gives 0 tokens, 0 words
\* and 0 characters to a text that is empty or white space only.
C17_TokensOfBlankAndNonBlank ==
  Estimated =>
    IF Blank(call.text)
    THEN call.result.tokens = 0 /\ call.result.words = 0 /\ call.result.characters = 0
    ELSE call.result.tokens >= 1

\* A text of white space only was estimated.
C17_Witness ==
  /\ Estimated
  /\ Len(call.text) > 0 /\ Blank(call.text)
  /\ call.result = NoEstimate

\* The least whole number that is at least num / den.
Ceil(num, den) == CHOOSE n \in 0..num : n * den >= num /\ (n = 0 \/ (n - 1) * den < num)

\* The whole number nearest to tenths / 10, halves upwards.
Round(tenths) == (tenths + 5) \div 10

\* max(1, byWord, byChar, blended) with byWord = ceil(w * 1.33),
\* byChar = ceil(c / 4) and blended = round(0.4 * byWord + 0.6 * byChar).
TokensOf(w, c) ==
  LET byWord == Ceil(133 * w, 100)
      byChar == Ceil(c, 4)
      blended == Round(4 * byWord + 6 * byChar)
  IN Max(1, Max(byWord, Max(byChar, blended)))

\* The characters of the text that are not white space.
NonSpace(text) == Cardinality({i \in 1..Len(text) : ~IsSpace(text[i])})

\* C18.  For a non-empty text with word count w and c characters that are
\* not white space, the token count is max(1, byWord, byChar, blended) with
\* byWord = ceil(w * 1.33), also when the word count is 0.
C18_TokensFromCounts ==
  (Estimated /\ ~Blank(call.text)) =>
    call.result.tokens = TokensOf(call.result.words, NonSpace(call.text))

\* C18, amended.  As C18, with byWord = ceil(max(w, 1) * 1.33): a text
\* without a word is estimated as a text of one word.
C18_TokensFromCountsOfOneWordAtLeast ==
  (Estimated /\ ~Blank(call.text)) =>
    call.result.tokens = TokensOf(Max(call.result.words, 1), NonSpace(call.text))

\* A text of punctuation only, no word in it, was given two tokens.
C18_Witness ==
  /\ Estimated
  /\ ~Blank(call.text)
  /\ call.result.words = 0 /\ call.result.characters > 0
  /\ call.result.tokens = 2

\* estimateTokensFromBytes has returned the tokens of call.bytes.
Counted == call.fn = "estimateTokensFromBytes" /\ call.done

\* C19.  estimateTokensFromBytes(0) is 0, and for b > 0 bytes the result
\* is max(1, ceil(b / 4)), which is at least 1.
C19_TokensFromBytes ==
  Counted =>
    IF call.bytes = 0 THEN call.result = 0
    ELSE call.result = Max(1, Ceil(call.bytes, 4)) /\ call.result >= 1

\* Five bytes were counted as two tokens.
C19_Witness == Counted /\ call.bytes = 5 /\ call.result = 2

\* parseFileSizeToBytes has returned the bytes of call.sizeText.
Parsed == call.fn = "parseFileSizeToBytes" /\ call.done

\* C20.  parseFileSizeToBytes returns value * 1024^k for a label with a
\* number and a unit B, KB or KiB, MB or MiB, GB or GiB, TB or TiB (k = 0
\* to 4) in either case, commas ignored, and 0 for a label without a
\* recognizable number and unit.
C20_BytesOfSizeLabel ==
  Parsed =>
    LET text == SelectSeq(call.sizeText, LAMBDA c : c # ",")
    IN /\ ~call.result.nan
       /\ Matches(text) = {} => call.result = Decimal(0, 0)
       /\ Matches(text) # {} =>
            LET match == FirstMatch(text)
                number == SubSeq(text, match.first, match.last)
            IN IF \E i \in 1..Len(number) : IsDigit(number[i])
               THEN call.result = TimesBase(parseFloat(number), UnitPower[match.unit])
               ELSE call.result = Decimal(0, 0)

\* C21.  Each refresh loop (token counter, prompt navigator, response
\* styling) has at most one debounced rescan pending: scheduling a rescan
\* cancels the pending one, whatever the order of mutations, resizes and
\* timer expiries.
C21_OneRescanPending ==
  \A loop \in Loops : Cardinality(timers[loop].pending) <= 1

\* A mutation has rescheduled the token counter's rescan while the one
\* scheduled at load was still pending, and one timer is left.
C21_Witness ==
  /\ lastOp.op = "mutation"
  /\ timers["counter"].replaced
  /\ \A loop \in Loops : Cardinality(timers[loop].pending) = 1

\* C22.  A burst of mutations, each arriving before the debounce window of
\* the previous one has elapsed, causes exactly one rescan; it runs no
\* sooner than a full window after the last mutation of the burst, and it
\* does run once the mutations have stopped.
C22_OneRescanAfterTheBurst ==
  /\ [](\A loop \in Loops :
          /\ timers[loop].ran <= 1
          /\ timers[loop].ran = 1 => clock >= timers[loop].scheduledAt + Window(loop))
  /\ \A loop \in Loops : \A flip \in BOOLEAN :
       (timers[loop].pending # {} /\ timers[loop].flip = flip) ~> (timers[loop].flip # flip)

\* The navigator has rescanned once, after a mutation that replaced the
\* rescan an earlier mutation had scheduled.
C22_Witness ==
  /\ lastOp.op = "navigator"
  /\ timers["navigator"].replaced
  /\ timers["navigator"].ran = 1
  /\ timers["navigator"].pending = {}

\* C23.  When the page's turns change and no mutation is notified, the
\* navigator's target list is still eventually derived anew from the page,
\* by the interval rescan, whenever the Prompt Navigator is enabled.
C23_FallbackRescan ==
  (navigator.enabled /\ prompts # scan(turns))
    ~> (prompts = scan(turns) \/ ~navigator.enabled)

\* C26.  While the sessionTracker setting or the promptNavigator setting
\* is off, the session tracker is disabled and its row is not displayed,
\* also after an attach retry that was pending when it was disabled.
C26_TrackerOnlyWhenBothOn ==
  (~settings.sessionTracker \/ ~settings.promptNavigator)
    => (~tracker.enabled /\ tracker.row # "shown")

\* C27.  checkGenerationState plays the chime only for a completion it
\* observed while enabled: generation was seen in progress and then seen
\* finished with the feature enabled throughout; after disable and enable
\* no chime is played for a response that finished while the feature was
\* disabled.
C27_ChimeOnlyForObservedCompletion ==
  sound.chime => (sound.witnessed /\ ~sound.missed)

\* C24.  A user without a license makes at most FREE_NAVIGATIONS successful
\* jumps in total, however the jump requests and their access checks
\* interleave.
C24_AtMostThirtyFreeJumps ==
  ~storage.licensed => freeJumps <= FREE_NAVIGATIONS

\* C30.  For a user without a license the stored usage count is the number
\* of successful jumps, once no jump request is in flight.
C30_UsageCountIsFreeJumps ==
  (~storage.licensed /\ requests = <<>>) => storage.usageCount = freeJumps

C29_OnlyASuccessfulJumpMovesLastAnchor ==
  [][/\ \A direction \in {"previous", "next"} :
          HandleJump(direction) =>
            IF lastOp'.result.success
            THEN lastAnchor' = [element |-> lastOp'.target.element,
                                kind |-> lastOp'.target.kind]
            ELSE UNCHANGED <<lastAnchor, lastJumpTime, scrollTop>>
     /\ lastAnchor' # lastAnchor =>
          \E direction \in {"previous", "next"} :
            HandleJump(direction) /\ lastOp'.result.success
    ]_vars

\* A jump failed after an earlier one had scrolled and set lastAnchor.
C29_Witness ==
  /\ lastOp.op = "jump" /\ ~lastOp.result.success
  /\ lastAnchor # NoAnchor
  /\ lastJumpTime > 0

\* The indices (from 0, in allTurns) of the turns that have an entry in sel.
Picked(sel) == {i \in 0..(Len(allTurns) - 1) : Has(sel, allTurns[i + 1])}

\* The turns between the last click and the click at index.
Between(index) ==
  {i \in 0..(Len(allTurns) - 1) :
     Min(lastClickedIndex, index) <= i /\ i <= Max(lastClickedIndex, index)}

Toggled(S, T) == (S \ T) \cup (T \ S)

\* C28.  A shift-click at index j while a last clicked index i >= 0 exists
\* toggles the membership of every turn between i and j, both included; a
\* click without shift, or with no last clicked index, toggles the clicked
\* turn only; either way the last clicked index becomes j.
C28_ShiftClickTogglesTheRange ==
  [][\A index \in 0..(Len(allTurns) - 1), isShiftClick \in BOOLEAN :
       HandleTurnClick(index, isShiftClick) =>
         /\ Picked(selectedTurns') =
              IF isShiftClick /\ lastClickedIndex >= 0
              THEN Toggled(Picked(selectedTurns), Between(index))
              ELSE Toggled(Picked(selectedTurns), {index})
         /\ lastClickedIndex' = index
    ]_vars

\* C28, amended.  A shift-click at index j while a last clicked index
\* i >= 0 exists selects every turn between i and j, both included: the
\* turns of the range that were selected stay selected, and no turn is
\* deselected.  A click without shift, or with no last clicked index,
\* toggles the clicked turn only; either way the last clicked index
\* becomes j.
C28_ShiftClickSelectsTheRange ==
  [][\A index \in 0..(Len(allTurns) - 1), isShiftClick \in BOOLEAN :
       HandleTurnClick(index, isShiftClick) =>
         /\ Picked(selectedTurns') =
              IF isShiftClick /\ lastClickedIndex >= 0
              THEN Picked(selectedTurns) \cup Between(index)
              ELSE Toggled(Picked(selectedTurns), {index})
         /\ lastClickedIndex' = index
    ]_vars

\* A shift-click has extended the selection over a range of turns.
C28_Witness ==
  /\ lastOp.op = "range"
  /\ Cardinality(Picked(selectedTurns)) >= 2

\* ceil((w || 1) * 1.33) and ceil(c / 4) of the counts of the call.
ByWord == Ceil(133 * Max(call.words, 1), 100)

ByChar == Ceil(call.characters, 4)

\* C38.  The blended candidate never decides the estimate: for word counts
\* w >= 0 and character counts c >= 1, round(0.4 * byWord + 0.6 * byChar)
\* is at most max(byWord, byChar), and the token count returned is
\* max(byWord, byChar).
C38_BlendNeverDecides ==
  (call.fn = "estimateFromCounts" /\ call.done) =>
    /\ Round(4 * ByWord + 6 * ByChar) <= Max(ByWord, ByChar)
    /\ call.result.tokens = Max(ByWord, ByChar)

\* Counts whose two estimates differ by more than one, the blend strictly
\* between them.
C38_Witness ==
  /\ call.fn = "estimateFromCounts" /\ call.done
  /\ ByChar > ByWord + 1
  /\ Round(4 * ByWord + 6 * ByChar) > ByWord
  /\ call.result.tokens = ByChar

\* checkAndValidateLicense has returned.
Validated == call.fn = "checkAndValidateLicense" /\ call.done

\* The call has sent one request to the service, stored the answer with the
\* time of the call, and returned it.
ValidatedRemotely ==
  /\ call.result.requests = 1
  /\ call.result.returned = (call.answer = "granted")
  /\ call.result.storage = [call.st EXCEPT !.licenseValid = call.result.returned,
                                           !.lastValidated = call.now]

\* The call has sent no request and left the storage as it was.
ValidatedLocally(value) ==
  /\ call.result.requests = 0
  /\ call.result.returned = value
  /\ call.result.storage = call.st

\* C31.  checkAndValidateLicense returns false without contacting the
\* service when no key is stored; true without contacting it when the cached
\* result is valid and less than 24 hours old; in every other case it
\* validates remotely once, stores the result with a fresh timestamp and
\* returns it.
C31_ValidatesUnlessFresh ==
  Validated =>
    IF call.st.licenseKey \in {NoKey, ""} THEN ValidatedLocally(FALSE)
    ELSE IF call.st.licenseValid /\ call.now - call.st.lastValidated < REVALIDATE_AFTER
    THEN ValidatedLocally(TRUE)
    ELSE ValidatedRemotely

\* C31, amended.  As C31, the cached result being used when it is valid and
\* at most 24 hours old: a validation that is exactly 24 hours old is
\* still trusted.
C31_ValidatesUnlessAtMostADayOld ==
  Validated =>
    IF call.st.licenseKey \in {NoKey, ""} THEN ValidatedLocally(FALSE)
    ELSE IF call.st.licenseValid /\ call.now - call.st.lastValidated <= REVALIDATE_AFTER
    THEN ValidatedLocally(TRUE)
    ELSE ValidatedRemotely

\* A valid result of exactly 24 hours ago was returned without a request.
C31_Witness ==
  /\ Validated
  /\ call.st.licenseKey = "key" /\ call.st.licenseValid
  /\ call.now - call.st.lastValidated = REVALIDATE_AFTER
  /\ call.result.returned /\ call.result.requests = 0

\* The times SessionTracker holds and those localStorage holds for conv.
HeldTimes == {session.sessionStartTime, session.lastPromptTime}

SavedTimes(conv) == {session.saved[conv].sessionStartTime, session.saved[conv].lastPromptTime}

\* C32.  The session tracker never records a prompt it did not witness:
\* no time it holds or has saved was taken for prompts that the user had
\* not just sent in the conversation of the check (a conversation opened
\* with more prompts than the one before gets no time), and the data saved
\* under a conversation's key holds only times taken while that
\* conversation was the one displayed.
C32_OnlyWitnessedPrompts ==
  /\ \A t \in HeldTimes : t.witnessed
  /\ \A conv \in Conversations :
       \A t \in SavedTimes(conv) : t.witnessed /\ t.conv \in {conv, "none"}

\* C33.  Whenever the Prompt Navigator is enabled, a PROMPT_JUMP message or
\* an Alt+E / Alt+D key press leads to a jump attempt, whether the feature
\* was enabled at page load or by a later change of the setting; while it
\* is disabled no jump is attempted.
C33_InputJumpsWhileEnabled ==
  /\ lastOp.op = "input" => ~navigator.enabled
  /\ lastOp.op = "jump" => navigator.enabled

\* C34: a counter that the user has closed is not in the document until the
\* tokenCounter setting is switched on again, whatever mutations, updates
\* and other storage changes happen meanwhile.
C34_ClosedCounterStaysAway == counter.closed => counter.element = "none"

\* C35: after an updateCounter run that leaves the element in the document,
\* the element displays the total estimated from the conversation as it is.
C35_CounterShowsCurrentTotals ==
  (lastOp.op = "counter" /\ counter.element # "none")
    => counter.shown = totalTokens(gatherConversation(turns))

\* The role attribute, the nested role, the test id and the aria-label of
\* the turn say nothing about its role.
Unsignalled(turn) ==
  /\ turn.roleAttr = NoAttr
  /\ turn.nestedRole = NoAttr
  /\ turn.testId = {}
  /\ turn.ariaLabel = {}

\* C36: on one page, a turn without any role signal that the collector has
\* selected is recorded with the role that the navigator's scan, the
\* response styling and the session tracker give to it.
C36_OneRoleForEveryComponent ==
  \A e \in Range(selectedTurns) : \A k \in 1..Len(turns) :
    (turns[k].id = e.turn /\ Unsignalled(turns[k])) => e.role = scannedRole(turns, k)

\* C37: after a toggle in the popup, once the content script has processed
\* the storage change and the SETTINGS_CHANGED message, in either order,
\* every feature's enabled flag is its stored setting, and the session
\* tracker is enabled exactly when sessionTracker and promptNavigator are
\* both stored true.
C37_FlagsFollowStoredSettings ==
  (popup.feature # "none" /\ ~popup.event /\ ~popup.message) =>
    /\ counter.enabled = StoredSettings.tokenCounter
    /\ navigator.enabled = StoredSettings.promptNavigator
    /\ styling.enabled = StoredSettings.responseStyling
    /\ enabled = StoredSettings.contextCollector
    /\ sound.enabled = StoredSettings.soundNotification
    /\ tracker.enabled = (StoredSettings.sessionTracker /\ StoredSettings.promptNavigator)

\* The promptNavigator toggle was switched off with sessionTracker on; the
\* message was processed before the storage change, and both are done: the
\* session tracker is disabled.
C37_Witness ==
  /\ popup.feature = "promptNavigator" /\ ~popup.enabled
  /\ ~popup.event /\ ~popup.message
  /\ popup.first = "message"
  /\ settings.sessionTracker
  /\ ~tracker.enabled

====
